---- MODULE Spec2Model ----
(***************************************************************************)
(* Real-time pitch pipeline of sonovice/pitch-detector.                    *)
(*                                                                         *)
(*   pitchDetectionWorker.ts   the inference worker: frame accumulation    *)
(*                             and runModel                                *)
(*   pitchDetectionService.ts  PitchDetectionService: worker life cycle,   *)
(*                             audio graph, smoothing                      *)
(*   Demo page (part_000)      the session controller: pause clock,        *)
(*                             history, segmentation                       *)
(*                                                                         *)
(* Two specifications share the variables:                                 *)
(*   SpecWorker  the worker alone, fed with arbitrary audioData chunks     *)
(*   Spec        the session: page + service + worker + wall clock         *)
(***************************************************************************)
EXTENDS Integers, Sequences, FiniteSets, TLC

(***************************************************************************)
(* Program constants                                                       *)
(***************************************************************************)
\* pitchDetectionWorker.ts:8, in hundredths (0.8)
CONF_THRESHOLD == 80

(***************************************************************************)
(* Bounds of the model                                                     *)
(***************************************************************************)
\* The window length, NUM_INPUT_SAMPLES (pitchDetectionWorker.ts:4), is 1024 in the
\* source.  The worker's code reads it only through sampleBuffer.length, so the
\* model keeps the code and scales the length down; chunk lengths are scaled
\* with it (ChunkLens).
NUM_INPUT_SAMPLES == 8
\* SpecWorker: samples delivered to the worker in one run
MaxSamples == 34
\* Spec: chunks the worklet posts in one run
MaxChunks == 2
\* Spec: the wall clock advances MaxTicks times, by TickMs each time
MaxTicks == 1
TickMs == 50
\* Spec: start() calls, and stop() calls, that may wait at an await at a time
MaxStarts == 2
MaxStops == 2
\* SpecConsumer: consumer callbacks that may throw in one run
MaxThrows == 1
\* SpecSegmenter: observations handled in one run, and the latest time (ms)
MaxPoints == 4
MaxSegTime == 150
\* SpecMerge: runs of voiced points in the history the run starts from
MaxRuns == 3
\* SpecSmoother: observations handled
MaxObservations == 4
\* SpecNotes: observations handled
MaxNoteObservations == 2
\* SpecInference: windows inferred, bins of a model output
MaxInferences == 2
MaxBins == 3
\* SpecRuns, SpecRunsDemo: points in the history
MaxRunPoints == 3

Min(a, b) == IF a <= b THEN a ELSE b
Max(a, b) == IF a >= b THEN a ELSE b
Abs(a) == IF a < 0 THEN -a ELSE a

VARIABLES
    \* ---- worker (pitchDetectionWorker.ts) ----
    workerModel,    \* loadModel()'s progress: "none" (no worker yet) | "loading" | "loaded"
                    \* (modelLoaded) | "failed" | "terminated"
    sampleBuffer,   \* Float32Array(NUM_INPUT_SAMPLES)
    bufferPos,      \* write position in sampleBuffer
    toMain,         \* messages posted by the worker, not yet dispatched on the main thread
    \* ---- history variables of the worker specification ----
    fed,            \* number of samples delivered so far
    fedUnloaded,    \* how many of them were delivered while the model was not loaded
    windows,        \* the sample buffers handed to model.execute, in order
    liveWorkers,    \* number of Worker objects constructed and not terminated
    \* ---- main thread ----
    page,           \* the signals of the Demo page
    service,        \* the fields of the PitchDetectionService instance
    ops,            \* async calls suspended at an await
    toService,      \* audioData messages posted by the worklet, not yet dispatched
    toWorker,       \* audioData messages posted to the worker, not yet dispatched
    now,            \* Date.now(), ms
    \* ---- history variables of the session specification ----
    captured,       \* number of chunks the worklet has posted
    postedLog,      \* confidences of the 'pitch' messages the worker has posted, in order
    handledCount    \* number of 'pitch' messages dispatched on the main thread

workerVars == <<workerModel, sampleBuffer, bufferPos, toMain>>
ghostVars  == <<fed, fedUnloaded, windows, liveWorkers>>
mainVars   == <<page, service, ops, toService, toWorker, now>>
sessionGhostVars == <<captured, postedLog, handledCount>>
vars == <<workerVars, ghostVars, mainVars, sessionGhostVars>>

modelLoaded == workerModel = "loaded"

(***************************************************************************)
(* Messages worker -> main thread                                          *)
(***************************************************************************)
NoPitch == 0    \* pitch: null
PitchMsg(pitch, confidence) == [type |-> "pitch", pitch |-> pitch, confidence |-> confidence]
ModelLoadedMsg == [type |-> "model_loaded", pitch |-> NoPitch, confidence |-> 0]
ErrorMsg == [type |-> "error", pitch |-> NoPitch, confidence |-> 0]

(***************************************************************************)
(* runModel: the model's outputs are opaque; an output is a sequence of    *)
(* bins <<uncertainty, pitch>> (uncertainty in hundredths, the model's     *)
(* pitch in thousandths); throws = execute() throws.                       *)
(***************************************************************************)
\* getPitchHz: 10 * 2^((modelPitch * PT_SLOPE + PT_OFFSET) / 12), tabulated
\* to the nearest hertz for the model pitches fed
GetPitchHz(modelPitch) ==
    CASE modelPitch = 443 -> 220
      [] modelPitch = 633 -> 440
      [] modelPitch = 637 -> 446
      [] modelPitch = 823 -> 879

\* A loop that keeps the last of the accepted bins of highest confidence
RECURSIVE BestBinLast(_, _, _, _)
BestBinLast(bins, i, bestPitchHz, highestConfidence) ==
    IF i > Len(bins) THEN <<bestPitchHz, highestConfidence>>
    ELSE LET confidence == 100 - bins[i][1]
         IN  IF confidence >= CONF_THRESHOLD /\ confidence >= highestConfidence
             THEN BestBinLast(bins, i + 1, GetPitchHz(bins[i][2]), confidence)
             ELSE BestBinLast(bins, i + 1, bestPitchHz, highestConfidence)

\* The loop over the bins
RECURSIVE BestBin(_, _, _, _)
BestBin(bins, i, bestPitchHz, highestConfidence) ==
    IF i > Len(bins) THEN <<bestPitchHz, highestConfidence>>
    ELSE LET confidence == 100 - bins[i][1]
         IN  IF confidence >= CONF_THRESHOLD /\ confidence > highestConfidence
             THEN BestBin(bins, i + 1, GetPitchHz(bins[i][2]), confidence)
             ELSE BestBin(bins, i + 1, bestPitchHz, highestConfidence)

\* The message runModel posts for one full buffer
RunModel(output) ==
    IF output.throws THEN ErrorMsg
    ELSE LET best == BestBin(output.bins, 1, NoPitch, -1)
         IN  PitchMsg(best[1], IF best[2] >= 0 THEN best[2] ELSE 0)

\* What the model may answer for a window in the worker specification
ModelAnswer(bins) == [throws |-> FALSE, bins |-> bins]
ModelThrows == [throws |-> TRUE, bins |-> <<>>]
ModelOutputs == { ModelAnswer(<<<<10, 633>>>>), ModelThrows }

(***************************************************************************)
(* self.onmessage, type 'audioData': the copy loop.  Returns the buffer,   *)
(* the cursor and the buffers that became full, in order.                  *)
(***************************************************************************)
\* A copy loop without the split: what does not fit the buffer is lost.
CopyLoopDropsTail(audioData, currentInputPos, buf, pos, full) ==
    LET chunkSize == Min(Len(buf) - pos, Len(audioData) - currentInputPos)
        buf2 == [i \in 1..Len(buf) |->
                   IF i > pos /\ i <= pos + chunkSize
                   THEN audioData[currentInputPos + (i - pos)]
                   ELSE buf[i]]
    IN  IF pos + chunkSize = Len(buf)
        THEN [buf |-> buf2, pos |-> 0, full |-> Append(full, buf2)]
        ELSE [buf |-> buf2, pos |-> pos + chunkSize, full |-> full]

RECURSIVE CopyLoop(_, _, _, _, _)
CopyLoop(audioData, currentInputPos, buf, pos, full) ==
    IF currentInputPos < Len(audioData)
    THEN LET remainingBufferSpace == Len(buf) - pos
             chunkSize == Min(remainingBufferSpace, Len(audioData) - currentInputPos)
             buf2 == [i \in 1..Len(buf) |->
                        IF i > pos /\ i <= pos + chunkSize
                        THEN audioData[currentInputPos + (i - pos)]
                        ELSE buf[i]]
             pos2 == pos + chunkSize
         IN  IF pos2 = Len(buf)
             THEN CopyLoop(audioData, currentInputPos + chunkSize, buf2, 0, Append(full, buf2))
             ELSE CopyLoop(audioData, currentInputPos + chunkSize, buf2, pos2, full)
    ELSE [buf |-> buf, pos |-> pos, full |-> full]

\* A worker that runs the model once for a message, however many buffers
\* the message fills
WorkerOnAudioDataOncePerMessage(audioData, outputs) ==
    LET r == CopyLoop(audioData, 0, sampleBuffer, bufferPos, <<>>)
    IN  /\ Len(outputs) = Len(r.full)
        /\ sampleBuffer' = r.buf
        /\ bufferPos' = r.pos
        /\ toMain' = IF modelLoaded /\ Len(r.full) > 0
                     THEN Append(toMain, RunModel(outputs[Len(outputs)]))
                     ELSE toMain
        /\ UNCHANGED workerModel

\* A worker that runs the model whether it is loaded or not
WorkerOnAudioDataIgnoresLoad(audioData, outputs) ==
    LET r == CopyLoop(audioData, 0, sampleBuffer, bufferPos, <<>>)
    IN  /\ Len(outputs) = Len(r.full)
        /\ sampleBuffer' = r.buf
        /\ bufferPos' = r.pos
        /\ toMain' = toMain \o [k \in 1..Len(r.full) |-> RunModel(outputs[k])]
        /\ UNCHANGED workerModel

\* The worker handles one audioData message; outputs[k] is the model's answer
\* for the k-th buffer this message fills.
WorkerOnAudioData(audioData, outputs) ==
    LET r == CopyLoop(audioData, 0, sampleBuffer, bufferPos, <<>>)
    IN  /\ Len(outputs) = Len(r.full)
        /\ sampleBuffer' = r.buf
        /\ bufferPos' = r.pos
        /\ toMain' = IF modelLoaded
                     THEN toMain \o [k \in 1..Len(r.full) |-> RunModel(outputs[k])]
                     ELSE toMain
        /\ UNCHANGED workerModel

\* loadModel() succeeds
WorkerLoadModel ==
    /\ workerModel = "loading"
    /\ workerModel' = "loaded"
    /\ toMain' = Append(toMain, ModelLoadedMsg)
    /\ UNCHANGED <<sampleBuffer, bufferPos, ghostVars, mainVars, sessionGhostVars>>

\* loadModel() fails
WorkerLoadModelFails ==
    /\ workerModel = "loading"
    /\ workerModel' = "failed"
    /\ toMain' = Append(toMain, ErrorMsg)
    /\ UNCHANGED <<sampleBuffer, bufferPos, ghostVars, mainVars, sessionGhostVars>>

(***************************************************************************)
(* midiUtils.ts.  Frequencies are whole Hz; (continuous) MIDI numbers are   *)
(* counted in sixteenths of a semitone, the unit in which the segmenter's   *)
(* thresholds 0.75 * 0.75 and 0.5 * 0.75 semitones are whole numbers.       *)
(* log2 is tabulated for the frequencies the model feeds, to the nearest     *)
(* sixteenth (446 Hz is 23.5 cents, 3.75 sixteenths, above A4).              *)
(***************************************************************************)
MidiUnit == 16
NoMidi == -1    \* continuousMidi: null

\* hzToContinuousMidi: MIDI_A4 + 12 * log2(hz / A4)
HzToContinuousMidi(hz) ==
    CASE hz = 220 -> 57 * MidiUnit
      [] hz = 440 -> 69 * MidiUnit
      [] hz = 441 -> 69 * MidiUnit + 1
      [] hz = 442 -> 69 * MidiUnit + 1
      [] hz = 443 -> 69 * MidiUnit + 2
      [] hz = 446 -> 69 * MidiUnit + 4
      [] hz = 450 -> 69 * MidiUnit + 6
      [] hz = 452 -> 69 * MidiUnit + 7
      [] hz = 453 -> 69 * MidiUnit + 8
      [] hz = 454 -> 69 * MidiUnit + 9
      [] hz = 456 -> 69 * MidiUnit + 10
      [] hz = 457 -> 69 * MidiUnit + 11
      [] hz = 458 -> 69 * MidiUnit + 11
      [] hz = 459 -> 69 * MidiUnit + 12
      [] hz = 460 -> 69 * MidiUnit + 12
      [] hz = 472 -> 69 * MidiUnit + 19
      [] hz = 474 -> 69 * MidiUnit + 21
      [] hz = 476 -> 69 * MidiUnit + 22
      [] hz = 880 -> 81 * MidiUnit
      [] OTHER -> NoMidi

\* A getNoteDetails whose Math.round is a round-half-down
NoteDetailsHalfDown(continuousMidi) ==
    LET roundedMidi == (continuousMidi + MidiUnit \div 2 - 1) \div MidiUnit
    IN  [midi |-> roundedMidi, continuousMidi |-> continuousMidi,
         targetMidi |-> roundedMidi * MidiUnit,
         centsOffset |-> continuousMidi - roundedMidi * MidiUnit]

\* getNoteDetails from step 2 on, for a frequency of continuous MIDI number
\* continuousMidi: roundedMidi = Math.round(continuousMidi), which rounds a
\* half up; targetHz = A4 * 2^((roundedMidi - 69) / 12), kept as the MIDI number
\* of that frequency; centsOffset = 1200 * log2(hz / targetHz), in sixteenths
\* of a semitone (6.25 cents)
NoteDetails(continuousMidi) ==
    LET roundedMidi == (continuousMidi + MidiUnit \div 2) \div MidiUnit
    IN  [midi |-> roundedMidi, continuousMidi |-> continuousMidi,
         targetMidi |-> roundedMidi * MidiUnit,
         centsOffset |-> continuousMidi - roundedMidi * MidiUnit]

\* getNoteDetails: the fields the page reads
GetNoteDetails(hz) ==
    IF hz = NoPitch \/ hz <= 0 \/ HzToContinuousMidi(hz) = NoMidi
    THEN [continuousMidi |-> NoMidi, midi |-> NoMidi]
    ELSE [continuousMidi |-> HzToContinuousMidi(hz),
          midi |-> NoteDetails(HzToContinuousMidi(hz)).midi]

(***************************************************************************)
(* Exact fractions <<numerator, denominator>>, denominator > 0, in lowest  *)
(* terms (the averages of the segmenter).                                  *)
(***************************************************************************)
RECURSIVE Gcd(_, _)
Gcd(a, b) == IF b = 0 THEN a ELSE Gcd(b, a % b)
Frac(n, d) == LET g == Gcd(Abs(n), d) IN <<n \div g, d \div g>>
\* |a - b| < n / d
FracDiffLess(a, b, n, d) == Abs(a[1] * b[2] - b[1] * a[2]) * d < n * a[2] * b[2]
\* (a * wa + b * wb) / (wa + wb)
FracWeighted(a, wa, b, wb) ==
    Frac(a[1] * wa * b[2] + b[1] * wb * a[2], a[2] * b[2] * (wa + wb))

(***************************************************************************)
(* generateMidiSegments (Demo page).  Hyperparameter signals, part_000     *)
(* lines 91-95, 100; confidences are hundredths, times ms.                 *)
(***************************************************************************)
confidenceThreshold == 65
\* 0.75 semitones, in sixteenths
pitchChangeThreshold == 12
minNoteDuration == 50
maxGapForMerge == 100
\* 0.5 semitones, in sixteenths
pitchDiffForMerge == 8
\* seconds
chartDuration == 20

RECURSIVE SumOf(_, _)
SumOf(points, field) ==
    IF points = <<>> THEN 0 ELSE Head(points)[field] + SumOf(Tail(points), field)

\* isVoiced of generateMidiSegments
IsVoiced(point) == point.confidence >= confidenceThreshold /\ point.continuousMidi # NoMidi

\* A close that asks for more than minNoteDuration
CloseRunStrict(currentSegmentPoints, currentSegmentStartTime) ==
    LET endTime == currentSegmentPoints[Len(currentSegmentPoints)].x
        duration == endTime - currentSegmentStartTime
    IN  IF duration > minNoteDuration /\ Len(currentSegmentPoints) > 0
        THEN << [startTime |-> currentSegmentStartTime, endTime |-> endTime,
                 duration |-> duration,
                 avgContinuousMidi |-> Frac(SumOf(currentSegmentPoints, "continuousMidi"),
                                            Len(currentSegmentPoints)),
                 avgConfidence |-> Frac(SumOf(currentSegmentPoints, "confidence"),
                                        Len(currentSegmentPoints))] >>
        ELSE <<>>

\* A close that ends the run at the time the segmenter runs
CloseRunEndsAtNow(currentSegmentPoints, currentSegmentStartTime) ==
    LET endTime == now
        duration == endTime - currentSegmentStartTime
    IN  IF duration >= minNoteDuration /\ Len(currentSegmentPoints) > 0
        THEN << [startTime |-> currentSegmentStartTime, endTime |-> endTime,
                 duration |-> duration,
                 avgContinuousMidi |-> Frac(SumOf(currentSegmentPoints, "continuousMidi"),
                                            Len(currentSegmentPoints)),
                 avgConfidence |-> Frac(SumOf(currentSegmentPoints, "confidence"),
                                        Len(currentSegmentPoints))] >>
        ELSE <<>>

\* The segment a closed run yields: one if it lasted minNoteDuration, else none
CloseRun(currentSegmentPoints, currentSegmentStartTime) ==
    LET endTime == currentSegmentPoints[Len(currentSegmentPoints)].x
        duration == endTime - currentSegmentStartTime
    IN  IF duration >= minNoteDuration /\ Len(currentSegmentPoints) > 0
        THEN << [startTime |-> currentSegmentStartTime, endTime |-> endTime,
                 duration |-> duration,
                 avgContinuousMidi |-> Frac(SumOf(currentSegmentPoints, "continuousMidi"),
                                            Len(currentSegmentPoints)),
                 avgConfidence |-> Frac(SumOf(currentSegmentPoints, "confidence"),
                                        Len(currentSegmentPoints))] >>
        ELSE <<>>

\* pass 1: the loop over the history and the close of the last run
RECURSIVE SegmentPass(_, _, _, _, _)
SegmentPass(history, i, potentialSegments, currentSegmentPoints, currentSegmentStartTime) ==
    IF i > Len(history)
    THEN IF Len(currentSegmentPoints) > 0
         THEN potentialSegments \o CloseRun(currentSegmentPoints, currentSegmentStartTime)
         ELSE potentialSegments
    ELSE LET point == history[i]
             isVoiced == point.confidence >= confidenceThreshold /\ point.continuousMidi # NoMidi
         IN  IF isVoiced
             THEN IF Len(currentSegmentPoints) = 0
                  THEN SegmentPass(history, i + 1, potentialSegments, <<point>>, point.x)
                  ELSE LET prevMidi == currentSegmentPoints[Len(currentSegmentPoints)].continuousMidi
                           pitchDiff == Abs(point.continuousMidi - prevMidi)
                       IN  IF pitchDiff * 4 > pitchChangeThreshold * 3
                           THEN SegmentPass(history, i + 1,
                                    potentialSegments \o CloseRun(currentSegmentPoints, currentSegmentStartTime),
                                    <<point>>, point.x)
                           ELSE SegmentPass(history, i + 1, potentialSegments,
                                    Append(currentSegmentPoints, point), currentSegmentStartTime)
             ELSE IF Len(currentSegmentPoints) > 0
                  THEN SegmentPass(history, i + 1,
                           potentialSegments \o CloseRun(currentSegmentPoints, currentSegmentStartTime),
                           <<>>, 0)
                  ELSE SegmentPass(history, i + 1, potentialSegments, currentSegmentPoints,
                           currentSegmentStartTime)

\* A merge loop whose merged duration leaves out the gap
RECURSIVE MergePassPointsDuration(_, _, _)
MergePassPointsDuration(potentialSegments, i, mergedSegments) ==
    IF i > Len(potentialSegments) THEN mergedSegments
    ELSE LET prev == mergedSegments[Len(mergedSegments)]
             curr == potentialSegments[i]
             gap == curr.startTime - prev.endTime
             totalPointsDuration == prev.duration + curr.duration
         IN  IF /\ gap > 0 /\ gap < maxGapForMerge
                /\ FracDiffLess(curr.avgContinuousMidi, prev.avgContinuousMidi,
                                pitchDiffForMerge * 3, 4)
                /\ totalPointsDuration > 0
             THEN MergePassPointsDuration(potentialSegments, i + 1,
                      [mergedSegments EXCEPT ![Len(mergedSegments)] =
                          [prev EXCEPT
                              !.endTime = curr.endTime,
                              !.duration = totalPointsDuration,
                              !.avgContinuousMidi =
                                  FracWeighted(prev.avgContinuousMidi, prev.duration,
                                               curr.avgContinuousMidi, curr.duration),
                              !.avgConfidence =
                                  FracWeighted(prev.avgConfidence, prev.duration,
                                               curr.avgConfidence, curr.duration)]])
             ELSE MergePassPointsDuration(potentialSegments, i + 1,
                                          Append(mergedSegments, curr))

\* pass 2: the merge loop, from i = 1 (0-based) with mergedSegments = [potentialSegments[0]]
RECURSIVE MergePass(_, _, _)
MergePass(potentialSegments, i, mergedSegments) ==
    IF i > Len(potentialSegments) THEN mergedSegments
    ELSE LET prev == mergedSegments[Len(mergedSegments)]
             curr == potentialSegments[i]
             gap == curr.startTime - prev.endTime
             totalPointsDuration == prev.duration + curr.duration
         IN  IF /\ gap > 0 /\ gap < maxGapForMerge
                /\ FracDiffLess(curr.avgContinuousMidi, prev.avgContinuousMidi,
                                pitchDiffForMerge * 3, 4)
                /\ totalPointsDuration > 0
             THEN MergePass(potentialSegments, i + 1,
                      [mergedSegments EXCEPT ![Len(mergedSegments)] =
                          [prev EXCEPT
                              !.endTime = curr.endTime,
                              !.duration = prev.duration + gap + curr.duration,
                              !.avgContinuousMidi =
                                  FracWeighted(prev.avgContinuousMidi, prev.duration,
                                               curr.avgContinuousMidi, curr.duration),
                              !.avgConfidence =
                                  FracWeighted(prev.avgConfidence, prev.duration,
                                               curr.avgConfidence, curr.duration)]])
             ELSE MergePass(potentialSegments, i + 1, Append(mergedSegments, curr))

\* A segmenter that adds its result to the published list
GenerateMidiSegmentsAccumulating(history, segmentedNotes) ==
    IF Len(history) < 2 THEN segmentedNotes
    ELSE LET potentialSegments == SegmentPass(history, 1, <<>>, <<>>, 0)
         IN  IF Len(potentialSegments) > 0
             THEN segmentedNotes \o MergePass(potentialSegments, 2, <<potentialSegments[1]>>)
             ELSE segmentedNotes

\* The value of segmentedNotes after generateMidiSegments(history)
GenerateMidiSegments(history, segmentedNotes) ==
    IF Len(history) < 2 THEN segmentedNotes
    ELSE LET potentialSegments == SegmentPass(history, 1, <<>>, <<>>, 0)
         IN  IF Len(potentialSegments) > 0
             THEN MergePass(potentialSegments, 2, <<potentialSegments[1]>>)
             ELSE <<>>

(***************************************************************************)
(* The main thread.  A handler is a function on the state                   *)
(*     S = [p: the page's signals, s: the service's fields, o: async calls  *)
(*          suspended at an await]                                          *)
(* so that a handler that calls another is their composition.  A step of    *)
(* the main thread is one task of the event loop: a handler run up to the   *)
(* awaits of promises the environment settles later (resume, addModule,     *)
(* getUserMedia, suspend, close), with the continuations of the awaits that *)
(* need no such promise (microtasks).                                       *)
(***************************************************************************)
\* resetThresholdInCents = 100: 2^(100/1200), in millionths
ResetRatio == 1059463
\* smoothingFactor 0.9 (Demo.tsx:277), in thousandths
smoothingFactorInternal == 900

\* The constructor: Math.max(0, Math.min(0.999, options.smoothingFactor))
ConstructorSmoothingFactor(smoothingFactor) == Max(0, Min(999, smoothingFactor))

InitPageSignals ==
    [isProcessing |-> FALSE, isInitializing |-> FALSE, isServiceReady |-> FALSE,
     error |-> FALSE, startAfterInit |-> FALSE,
     pitch |-> NoPitch, confidence |-> 0, noteDetails |-> FALSE,
     pitchHistory |-> <<>>, fullPitchHistory |-> <<>>, segmentedNotes |-> <<>>,
     pauseOffset |-> 0, pauseStartTime |-> 0,
     serviceInstance |-> FALSE,
     mounted |-> TRUE,      \* the component has not been disposed
     pausedAt |-> -1,       \* history: getAdjustedNow() at the stop request that
                            \* paused the session, -1 when it is not paused
     errorsInStep |-> 0,    \* history: calls of handleError in the latest task
     segRuns |-> 0,         \* history: calls of generateMidiSegments in the latest task
     thrown |-> 0]          \* history: consumer callbacks that have thrown (SpecConsumer)

\* audioContext: "none" (null) or the context's state
InitService ==
    [worker |-> FALSE, isInitialized |-> FALSE, modelReady |-> FALSE, isProcessing |-> FALSE,
     smoothedPitch |-> NoPitch, audioContext |-> "none",
     pitchForwarderNode |-> FALSE, microphoneNode |-> FALSE,
     mediaStream |-> FALSE,     \* a MediaStream with live tracks is held
     connected |-> FALSE,       \* microphoneNode -> pitchForwarderNode
     smoothingFactorInternal |-> ConstructorSmoothingFactor(smoothingFactorInternal)]

StartAwaits == {"resume", "addModule", "getUserMedia"}
\* start: how many start() calls wait at each await; stop: how many stop() calls
\* wait for suspend(); cleanup: the cleanup() calls that wait for close(), by caller
InitOps == [start |-> [a \in StartAwaits |-> 0], stop |-> 0, cleanup |-> {}]

\* getAdjustedNow
GetAdjustedNow(p) == now - p.pauseOffset

\* An error handler that leaves the initializing flag alone
HandleErrorStaysInitializing(S) ==
    [S EXCEPT !.p = [@ EXCEPT !.error = TRUE, !.isProcessing = FALSE,
                              !.noteDetails = FALSE,
                              !.pitchHistory = <<>>, !.fullPitchHistory = <<>>,
                              !.segmentedNotes = <<>>,
                              !.pauseOffset = 0, !.pauseStartTime = 0,
                              !.pausedAt = -1,
                              !.errorsInStep = @ + 1]]

(***************************************************************************)
(* generateMidiSegments of src/pages/Demo.tsx: the same two passes with    *)
(* constants for the hyperparameters, and with the two pitch tests taken   *)
(* against the constants themselves.                                       *)
(***************************************************************************)
CONFIDENCE_THRESHOLD == 65
\* 0.75 semitones, in sixteenths
PITCH_CHANGE_THRESHOLD_SEMITONES == 12
MIN_NOTE_DURATION_MS == 80
MAX_GAP_MS_FOR_MERGE == 100
\* 0.5 semitones, in sixteenths
PITCH_DIFF_FOR_MERGE_SEMITONES == 8

\* The segment a closed run yields in Demo.tsx
DemoCloseRun(currentSegmentPoints, currentSegmentStartTime) ==
    LET endTime == currentSegmentPoints[Len(currentSegmentPoints)].x
        duration == endTime - currentSegmentStartTime
    IN  IF duration >= MIN_NOTE_DURATION_MS /\ Len(currentSegmentPoints) > 0
        THEN << [startTime |-> currentSegmentStartTime, endTime |-> endTime,
                 duration |-> duration,
                 avgContinuousMidi |-> Frac(SumOf(currentSegmentPoints, "continuousMidi"),
                                            Len(currentSegmentPoints)),
                 avgConfidence |-> Frac(SumOf(currentSegmentPoints, "confidence"),
                                        Len(currentSegmentPoints))] >>
        ELSE <<>>

\* A pass 1 that compares a point with the first point of the open run
RECURSIVE DemoSegmentPassFromFirst(_, _, _, _, _)
DemoSegmentPassFromFirst(history, i, potentialSegments, currentSegmentPoints, currentSegmentStartTime) ==
    IF i > Len(history)
    THEN IF Len(currentSegmentPoints) > 0
         THEN potentialSegments \o DemoCloseRun(currentSegmentPoints, currentSegmentStartTime)
         ELSE potentialSegments
    ELSE LET point == history[i]
             isVoiced == point.confidence >= CONFIDENCE_THRESHOLD /\ point.continuousMidi # NoMidi
         IN  IF isVoiced
             THEN IF Len(currentSegmentPoints) = 0
                  THEN DemoSegmentPassFromFirst(history, i + 1, potentialSegments, <<point>>, point.x)
                  ELSE LET prevMidi == currentSegmentPoints[1].continuousMidi
                           pitchDiff == Abs(point.continuousMidi - prevMidi)
                       IN  IF pitchDiff > PITCH_CHANGE_THRESHOLD_SEMITONES
                           THEN DemoSegmentPassFromFirst(history, i + 1,
                                    potentialSegments
                                        \o DemoCloseRun(currentSegmentPoints, currentSegmentStartTime),
                                    <<point>>, point.x)
                           ELSE DemoSegmentPassFromFirst(history, i + 1, potentialSegments,
                                    Append(currentSegmentPoints, point), currentSegmentStartTime)
             ELSE IF Len(currentSegmentPoints) > 0
                  THEN DemoSegmentPassFromFirst(history, i + 1,
                           potentialSegments
                               \o DemoCloseRun(currentSegmentPoints, currentSegmentStartTime),
                           <<>>, 0)
                  ELSE DemoSegmentPassFromFirst(history, i + 1, potentialSegments, currentSegmentPoints,
                           currentSegmentStartTime)

\* Demo.tsx, pass 1
RECURSIVE DemoSegmentPass(_, _, _, _, _)
DemoSegmentPass(history, i, potentialSegments, currentSegmentPoints, currentSegmentStartTime) ==
    IF i > Len(history)
    THEN IF Len(currentSegmentPoints) > 0
         THEN potentialSegments \o DemoCloseRun(currentSegmentPoints, currentSegmentStartTime)
         ELSE potentialSegments
    ELSE LET point == history[i]
             isVoiced == point.confidence >= CONFIDENCE_THRESHOLD /\ point.continuousMidi # NoMidi
         IN  IF isVoiced
             THEN IF Len(currentSegmentPoints) = 0
                  THEN DemoSegmentPass(history, i + 1, potentialSegments, <<point>>, point.x)
                  ELSE LET prevMidi == currentSegmentPoints[Len(currentSegmentPoints)].continuousMidi
                           pitchDiff == Abs(point.continuousMidi - prevMidi)
                       IN  IF pitchDiff > PITCH_CHANGE_THRESHOLD_SEMITONES
                           THEN DemoSegmentPass(history, i + 1,
                                    potentialSegments
                                        \o DemoCloseRun(currentSegmentPoints, currentSegmentStartTime),
                                    <<point>>, point.x)
                           ELSE DemoSegmentPass(history, i + 1, potentialSegments,
                                    Append(currentSegmentPoints, point), currentSegmentStartTime)
             ELSE IF Len(currentSegmentPoints) > 0
                  THEN DemoSegmentPass(history, i + 1,
                           potentialSegments
                               \o DemoCloseRun(currentSegmentPoints, currentSegmentStartTime),
                           <<>>, 0)
                  ELSE DemoSegmentPass(history, i + 1, potentialSegments, currentSegmentPoints,
                           currentSegmentStartTime)

\* A pass 2 that compares curr with the segment before it in pass 1, merged or not
RECURSIVE DemoMergePassFromNeighbour(_, _, _)
DemoMergePassFromNeighbour(potentialSegments, i, mergedSegments) ==
    IF i > Len(potentialSegments) THEN mergedSegments
    ELSE LET prev == mergedSegments[Len(mergedSegments)]
             curr == potentialSegments[i]
             gap == curr.startTime - prev.endTime
             totalPointsDuration == prev.duration + curr.duration
         IN  IF /\ gap > 0 /\ gap < MAX_GAP_MS_FOR_MERGE
                /\ FracDiffLess(curr.avgContinuousMidi, potentialSegments[i - 1].avgContinuousMidi,
                                PITCH_DIFF_FOR_MERGE_SEMITONES, 1)
                /\ totalPointsDuration > 0
             THEN DemoMergePassFromNeighbour(potentialSegments, i + 1,
                      [mergedSegments EXCEPT ![Len(mergedSegments)] =
                          [prev EXCEPT
                              !.endTime = curr.endTime,
                              !.duration = prev.duration + gap + curr.duration,
                              !.avgContinuousMidi =
                                  FracWeighted(prev.avgContinuousMidi, prev.duration,
                                               curr.avgContinuousMidi, curr.duration),
                              !.avgConfidence =
                                  FracWeighted(prev.avgConfidence, prev.duration,
                                               curr.avgConfidence, curr.duration)]])
             ELSE DemoMergePassFromNeighbour(potentialSegments, i + 1, Append(mergedSegments, curr))

\* Demo.tsx, pass 2
RECURSIVE DemoMergePass(_, _, _)
DemoMergePass(potentialSegments, i, mergedSegments) ==
    IF i > Len(potentialSegments) THEN mergedSegments
    ELSE LET prev == mergedSegments[Len(mergedSegments)]
             curr == potentialSegments[i]
             gap == curr.startTime - prev.endTime
             totalPointsDuration == prev.duration + curr.duration
         IN  IF /\ gap > 0 /\ gap < MAX_GAP_MS_FOR_MERGE
                /\ FracDiffLess(curr.avgContinuousMidi, prev.avgContinuousMidi,
                                PITCH_DIFF_FOR_MERGE_SEMITONES, 1)
                /\ totalPointsDuration > 0
             THEN DemoMergePass(potentialSegments, i + 1,
                      [mergedSegments EXCEPT ![Len(mergedSegments)] =
                          [prev EXCEPT
                              !.endTime = curr.endTime,
                              !.duration = prev.duration + gap + curr.duration,
                              !.avgContinuousMidi =
                                  FracWeighted(prev.avgContinuousMidi, prev.duration,
                                               curr.avgContinuousMidi, curr.duration),
                              !.avgConfidence =
                                  FracWeighted(prev.avgConfidence, prev.duration,
                                               curr.avgConfidence, curr.duration)]])
             ELSE DemoMergePass(potentialSegments, i + 1, Append(mergedSegments, curr))

\* Demo.tsx: the value of segmentedNotes after generateMidiSegments(history)
DemoGenerateMidiSegments(history, segmentedNotes) ==
    IF Len(history) < 2 THEN segmentedNotes
    ELSE LET potentialSegments == DemoSegmentPass(history, 1, <<>>, <<>>, 0)
         IN  IF Len(potentialSegments) > 0
             THEN DemoMergePass(potentialSegments, 2, <<potentialSegments[1]>>)
             ELSE <<>>

\* A task of the page of Demo.tsx: the handlers are those of the newer page,
\* and a call of generateMidiSegments publishes the result of Demo.tsx's
DemoPage(S) ==
    IF S.p.segRuns > 0
    THEN [S EXCEPT !.p.segmentedNotes =
                       DemoGenerateMidiSegments(S.p.fullPitchHistory, page.segmentedNotes)]
    ELSE S

\* An error handler that leaves the pause bookkeeping alone
HandleErrorKeepsPause(S) ==
    [S EXCEPT !.p = [@ EXCEPT !.error = TRUE, !.isProcessing = FALSE, !.isInitializing = FALSE,
                              !.noteDetails = FALSE,
                              !.pitchHistory = <<>>, !.fullPitchHistory = <<>>,
                              !.segmentedNotes = <<>>,
                              !.pausedAt = -1,
                              !.errorsInStep = @ + 1]]

\* handleError
HandleError(S) ==
    [S EXCEPT !.p = [@ EXCEPT !.error = TRUE, !.isProcessing = FALSE, !.isInitializing = FALSE,
                              !.noteDetails = FALSE,
                              !.pitchHistory = <<>>, !.fullPitchHistory = <<>>,
                              !.segmentedNotes = <<>>,
                              !.pauseOffset = 0, !.pauseStartTime = 0,
                              !.pausedAt = -1,
                              !.errorsInStep = @ + 1]]

\* The new point put in front: [newHistoryPoint, ...prev]
PrependPoint(prev, newHistoryPoint) == <<newHistoryPoint>> \o prev

\* [...prev, newHistoryPoint]
AppendPoint(prev, newHistoryPoint) == Append(prev, newHistoryPoint)

\* handlePitchUpdate
HandlePitchUpdate(S, smoothedPitchHz, detectedConfidence) ==
    LET adjustedNow == GetAdjustedNow(S.p)
        currentNoteDetails == GetNoteDetails(smoothedPitchHz)
        newHistoryPoint == [x |-> adjustedNow, y |-> currentNoteDetails.midi,
                            confidence |-> detectedConfidence,
                            continuousMidi |-> currentNoteDetails.continuousMidi]
        cutoff == adjustedNow - chartDuration * 1000
        full == AppendPoint(S.p.fullPitchHistory, newHistoryPoint)
    IN  [S EXCEPT !.p = [@ EXCEPT
            !.pitch = smoothedPitchHz,
            !.confidence = detectedConfidence,
            !.noteDetails = currentNoteDetails.continuousMidi # NoMidi,
            !.pitchHistory = SelectSeq(AppendPoint(@, newHistoryPoint), LAMBDA q : q.x >= cutoff),
            !.fullPitchHistory = full,
            !.segmentedNotes = GenerateMidiSegments(full, @),
            !.segRuns = @ + 1]]

\* A smoothing that blends whatever the state
SmoothAlwaysBlends(detectedPitch, smoothedPitch, smoothingFactor) ==
    LET alpha == 1000 - smoothingFactor
    IN  IF detectedPitch = NoPitch THEN NoPitch
        ELSE (detectedPitch * alpha + smoothedPitch * (1000 - alpha)) \div 1000

\* A smoothing whose jump test rounds the semitone ratio down to 1.0594
SmoothRoundedThreshold(detectedPitch, smoothedPitch, smoothingFactor) ==
    LET alpha == 1000 - smoothingFactor
        jump == \/ detectedPitch * 10000 > smoothedPitch * 10594
                \/ smoothedPitch * 10000 > detectedPitch * 10594
    IN  IF detectedPitch = NoPitch THEN NoPitch
        ELSE IF smoothedPitch = NoPitch \/ jump \/ alpha = 1000 THEN detectedPitch
        ELSE (detectedPitch * alpha + smoothedPitch * (1000 - alpha)) \div 1000

\* A smoothing whose blend has the weights the other way round (and whose
\* jump test takes the ratio 1.0595)
SmoothSwappedWeights(detectedPitch, smoothedPitch, smoothingFactor) ==
    LET alpha == 1000 - smoothingFactor
        jump == \/ detectedPitch * 10000 > smoothedPitch * 10595
                \/ smoothedPitch * 10000 > detectedPitch * 10595
    IN  IF detectedPitch = NoPitch THEN NoPitch
        ELSE IF smoothedPitch = NoPitch \/ jump \/ alpha = 1000 THEN detectedPitch
        ELSE (detectedPitch * (1000 - alpha) + smoothedPitch * alpha) \div 1000

\* The smoothing of worker.onmessage, type 'pitch': the new smoothedPitch
\* (smoothingFactor: this.smoothingFactorInternal, in thousandths)
Smooth(detectedPitch, smoothedPitch, smoothingFactor) ==
    LET alpha == 1000 - smoothingFactor
        \* f1 * 1000000 > f2 * ResetRatio, in two halves to stay within 32 bits
        exceeds(f1, f2) ==
            LET high == f1 * 1000 - f2 * (ResetRatio \div 1000)
            IN  high > 0 /\ (high >= f2 \/ high * 1000 > f2 * (ResetRatio % 1000))
        \* |1200 * log2(detectedPitch / smoothedPitch)| > resetThresholdInCents
        jump == exceeds(detectedPitch, smoothedPitch) \/ exceeds(smoothedPitch, detectedPitch)
    IN  IF detectedPitch = NoPitch THEN NoPitch
        ELSE IF smoothedPitch = NoPitch \/ jump \/ alpha = 1000 THEN detectedPitch
        ELSE (detectedPitch * alpha + smoothedPitch * (1000 - alpha)) \div 1000

\* An internal stop that also stops the tracks of the stream
StopInternalStopsTracks(S) ==
    [S EXCEPT !.s.isProcessing = FALSE, !.s.connected = FALSE, !.s.mediaStream = FALSE]

\* stopInternal
StopInternal(S) == [S EXCEPT !.s.isProcessing = FALSE, !.s.connected = FALSE]

\* The end of cleanup(), after the context is closed; for the page's onCleanup
\* the rest of that function follows.
CleanupEnd(S, caller) ==
    LET S1 == [S EXCEPT !.s.audioContext = "none", !.s.isInitialized = FALSE,
                        !.s.modelReady = FALSE, !.s.isProcessing = FALSE,
                        !.s.smoothedPitch = NoPitch,
                        !.o.cleanup = @ \ {caller}]
    IN  IF caller = "page"
        THEN [S1 EXCEPT !.p = [InitPageSignals EXCEPT !.mounted = FALSE,
                                                      !.errorsInStep = S1.p.errorsInStep,
                                                      !.segRuns = S1.p.segRuns,
                                                      !.thrown = S1.p.thrown]]
        ELSE S1

\* cleanup() up to await this.audioContext.close()
Cleanup(S, caller) ==
    LET S1 == [StopInternal(S) EXCEPT !.s.worker = FALSE, !.s.pitchForwarderNode = FALSE,
                                      !.s.microphoneNode = FALSE, !.s.mediaStream = FALSE]
    IN  IF S1.s.audioContext # "none"
        THEN [S1 EXCEPT !.o.cleanup = @ \cup {caller}]
        ELSE CleanupEnd(S1, caller)

\* startProcessing after await serviceInstance.start()
StartProcessingEnd(S) ==
    IF ~S.p.serviceInstance THEN S      \* serviceInstance is null: TypeError
    ELSE IF S.s.isProcessing THEN [S EXCEPT !.p.isProcessing = TRUE]
    ELSE IF ~S.p.error THEN HandleError(S)
    ELSE S

\* start(): the catch block
StartCatch(S) == StartProcessingEnd(StopInternal(HandleError(S)))

\* start(): connect the audio graph
StartConnect(S) ==
    IF ~S.s.microphoneNode \/ ~S.s.pitchForwarderNode THEN StartCatch(S)
    ELSE StartProcessingEnd([S EXCEPT !.s.connected = TRUE, !.s.isProcessing = TRUE])

\* start(): the try block up to await getUserMedia
StartMicrophone(S) ==
    LET S1 == [S EXCEPT !.s.smoothedPitch = NoPitch]
    IN  IF ~S1.s.mediaStream
        THEN [S1 EXCEPT !.o.start["getUserMedia"] = @ + 1]
        ELSE StartConnect(S1)

\* start() after ensureAudioContext() returned true: setupAudioWorklet up to
\* await addModule
StartWorklet(S) ==
    IF S.s.pitchForwarderNode THEN StartMicrophone(S)
    ELSE [S EXCEPT !.o.start["addModule"] = @ + 1]

\* start(): ensureAudioContext() or setupAudioWorklet() reported an error and
\* returned false
StartRefused(S) == StartProcessingEnd(HandleError(HandleError(S)))

\* A start() that returns in silence when the service is not initialized
StartSilentBeforeInitialized(S, created) ==
    IF ~S.s.isInitialized \/ ~S.s.worker THEN StartProcessingEnd(S)
    ELSE IF S.s.isProcessing THEN StartProcessingEnd(S)
    ELSE IF S.s.audioContext = "none" /\ created = "throw" THEN StartRefused(S)
    ELSE LET S1 == IF S.s.audioContext = "none" THEN [S EXCEPT !.s.audioContext = created] ELSE S
         IN  IF S1.s.audioContext = "suspended" THEN [S1 EXCEPT !.o.start["resume"] = @ + 1]
             ELSE StartWorklet(S1)

\* start() up to its first await; created is what new AudioContext() yields:
\* a context in state "suspended" or "running", or "throw"
Start(S, created) ==
    IF ~S.s.isInitialized \/ ~S.s.worker THEN StartProcessingEnd(HandleError(S))
    ELSE IF S.s.isProcessing THEN StartProcessingEnd(S)
    ELSE IF S.s.audioContext = "none" /\ created = "throw" THEN StartRefused(S)
    ELSE LET S1 == IF S.s.audioContext = "none" THEN [S EXCEPT !.s.audioContext = created] ELSE S
         IN  IF S1.s.audioContext = "suspended" THEN [S1 EXCEPT !.o.start["resume"] = @ + 1]
             ELSE StartWorklet(S1)

\* startProcessing
StartProcessing(S, created) ==
    IF ~S.p.serviceInstance \/ ~S.p.isServiceReady \/ S.p.isProcessing \/ S.p.isInitializing
    THEN IF S.p.isInitializing THEN [S EXCEPT !.p.startAfterInit = TRUE] ELSE S
    ELSE LET S1 == [S EXCEPT !.p.error = FALSE]
             pauseDuration == now - S1.p.pauseStartTime
             S2 == IF S1.p.pauseStartTime > 0
                   THEN [S1 EXCEPT !.p.pauseOffset = @ + pauseDuration, !.p.pauseStartTime = 0]
                   ELSE S1
         IN  Start([S2 EXCEPT !.p.pausedAt = -1], created)

\* stopProcessing after await serviceInstance.stop()
StopProcessingEnd(S) ==
    [S EXCEPT !.p.isProcessing = FALSE,
              !.p.segmentedNotes = GenerateMidiSegments(S.p.fullPitchHistory, @),
              !.p.segRuns = @ + 1]

\* stopProcessing, with stop() up to await suspend()
StopProcessing(S) ==
    IF ~S.p.serviceInstance \/ ~S.p.isProcessing THEN S
    ELSE LET S1 == StopInternal([S EXCEPT !.p.pauseStartTime = now,
                                          !.p.pausedAt = IF @ = -1 THEN GetAdjustedNow(S.p) ELSE @])
         IN  IF S1.s.audioContext = "running"
             THEN [S1 EXCEPT !.o.stop = @ + 1]
             ELSE StopProcessingEnd(S1)

\* A model-loaded handler that forgets the deferred start
HandleModelLoadedNoStart(S, created) ==
    [S EXCEPT !.p.isInitializing = FALSE, !.p.isServiceReady = TRUE, !.p.startAfterInit = FALSE]

\* handleModelLoaded
HandleModelLoaded(S, created) ==
    LET S1 == [S EXCEPT !.p.isInitializing = FALSE, !.p.isServiceReady = TRUE]
    IN  IF S1.p.startAfterInit
        THEN [StartProcessing(S1, created) EXCEPT !.p.startAfterInit = FALSE]
        ELSE S1

\* worker.onmessage, type 'model_loaded', with checkInitializationComplete
OnModelLoaded(S, created) ==
    LET S1 == [S EXCEPT !.s.modelReady = TRUE]
    IN  IF ~S1.s.isInitialized
        THEN HandleModelLoaded([S1 EXCEPT !.s.isInitialized = TRUE], created)
        ELSE S1

\* worker.onmessage, type 'pitch'
OnPitch(S, detectedPitch, confidence) ==
    LET smoothed == Smooth(detectedPitch, S.s.smoothedPitch, S.s.smoothingFactorInternal)
    IN  HandlePitchUpdate([S EXCEPT !.s.smoothedPitch = smoothed], smoothed, confidence)

\* An initialization that reports the service ready without waiting for the
\* worker's model
InitializeAudioReadyAtOnce(S, workerThrows) ==
    IF S.p.serviceInstance \/ S.p.isInitializing THEN S
    ELSE LET S1 == [S EXCEPT
                      !.p = [@ EXCEPT !.error = FALSE, !.isInitializing = FALSE,
                                      !.isServiceReady = TRUE, !.startAfterInit = FALSE,
                                      !.noteDetails = FALSE,
                                      !.pitchHistory = <<>>, !.fullPitchHistory = <<>>,
                                      !.segmentedNotes = <<>>,
                                      !.pauseOffset = 0, !.pauseStartTime = 0,
                                      !.pausedAt = -1,
                                      !.serviceInstance = TRUE],
                      !.s = [InitService EXCEPT !.isInitialized = TRUE]]
         IN  IF workerThrows THEN Cleanup(HandleError(S1), "service")
             ELSE [S1 EXCEPT !.s.worker = TRUE]

\* initializeAudio, with the constructor and initialize(); workerThrows: new
\* Worker() throws
InitializeAudio(S, workerThrows) ==
    IF S.p.serviceInstance \/ S.p.isInitializing THEN S
    ELSE LET S1 == [S EXCEPT
                      !.p = [@ EXCEPT !.error = FALSE, !.isInitializing = TRUE,
                                      !.isServiceReady = FALSE, !.startAfterInit = TRUE,
                                      !.noteDetails = FALSE,
                                      !.pitchHistory = <<>>, !.fullPitchHistory = <<>>,
                                      !.segmentedNotes = <<>>,
                                      !.pauseOffset = 0, !.pauseStartTime = 0,
                                      !.pausedAt = -1,
                                      !.serviceInstance = TRUE],
                      !.s = InitService]
         IN  IF workerThrows THEN Cleanup(HandleError(S1), "service")
             ELSE [S1 EXCEPT !.s.worker = TRUE]

\* initialize(); workerThrows: new Worker() throws
Initialize(S, workerThrows) ==
    IF S.s.isInitialized \/ S.s.modelReady THEN S
    ELSE LET S1 == [S EXCEPT !.s.isInitialized = FALSE, !.s.modelReady = FALSE,
                             !.s.isProcessing = FALSE, !.s.smoothedPitch = NoPitch]
         IN  IF workerThrows THEN Cleanup(HandleError(S1), "service")
             ELSE [S1 EXCEPT !.s.worker = TRUE]

\* audioContext.onstatechange
OnStateChange(S) ==
    IF S.s.audioContext # "running" /\ S.s.isProcessing
    THEN StopInternal(HandleError(S))
    ELSE S

(***************************************************************************)
(* Spec: the session.  Actions are the tasks of the main thread's event    *)
(* loop, the steps of the worker and of the worklet, and the clock.        *)
(***************************************************************************)
\* The state a main-thread task starts from
Cur == [p |-> [page EXCEPT !.errorsInStep = 0, !.segRuns = 0], s |-> service, o |-> ops]

\* The state a main-thread task leaves.  worker.terminate() discards the
\* worker's pending messages in both directions; new Worker() starts loadModel().
MainStep(S, toMainNext, toWorkerNext) ==
    LET terminated == service.worker /\ ~S.s.worker
        started == ~service.worker /\ S.s.worker
    IN  /\ page' = S.p
        /\ service' = S.s
        /\ ops' = S.o
        /\ workerModel' = IF terminated THEN "terminated"
                          ELSE IF started THEN "loading" ELSE workerModel
        /\ toMain' = IF terminated THEN <<>> ELSE toMainNext
        /\ toWorker' = IF terminated THEN <<>> ELSE toWorkerNext
        /\ liveWorkers' = liveWorkers + (IF started THEN 1 ELSE 0) - (IF terminated THEN 1 ELSE 0)
        /\ UNCHANGED <<sampleBuffer, bufferPos, toService, now, fed, fedUnloaded, windows,
                       captured, postedLog>>

PendingStarts == ops.start["resume"] + ops.start["addModule"] + ops.start["getUserMedia"]
NewContexts == {"suspended", "running", "throw"}

\* ---- the control surface: the buttons of the control bar and the space
\* bar call a handler only in the states tested here ----
UIInitializeAudio ==
    /\ page.mounted
    /\ ~page.isProcessing /\ ~page.isInitializing /\ ~page.isServiceReady
    /\ \E workerThrows \in BOOLEAN : MainStep(InitializeAudio(Cur, workerThrows), toMain, toWorker)
    /\ UNCHANGED handledCount

UIStartProcessing ==
    /\ page.mounted
    /\ ~page.isProcessing /\ ~page.isInitializing /\ page.isServiceReady
    /\ PendingStarts < MaxStarts
    /\ \E created \in NewContexts : MainStep(StartProcessing(Cur, created), toMain, toWorker)
    /\ UNCHANGED handledCount

UIStopProcessing ==
    /\ page.mounted
    /\ page.isProcessing
    /\ ops.stop < MaxStops
    /\ MainStep(StopProcessing(Cur), toMain, toWorker)
    /\ UNCHANGED handledCount

\* onCleanup of the page
PageCleanup ==
    /\ page.mounted
    /\ LET S == [Cur EXCEPT !.p.mounted = FALSE]
       IN  MainStep(IF S.p.serviceInstance THEN Cleanup(S, "page") ELSE CleanupEnd(S, "page"),
                    toMain, toWorker)
    /\ UNCHANGED handledCount

\* ---- promises the environment settles ----
\* (the context handles suspend() and resume() in the order of the calls)
\* The context settles all its pending resume() promises together.
RECURSIVE AfterResume(_, _)
AfterResume(S, k) ==
    IF k = 0 THEN S
    ELSE AfterResume(IF S.s.audioContext = "none" THEN S   \* this.audioContext.state: TypeError
                     ELSE StartWorklet(S),
                     k - 1)

RECURSIVE AfterResumeRejected(_, _)
AfterResumeRejected(S, k) ==
    IF k = 0 THEN S ELSE AfterResumeRejected(StartRefused(S), k - 1)

ResumeResolves ==
    /\ ops.start["resume"] > 0 /\ ops.stop = 0
    /\ LET S == [Cur EXCEPT !.o.start["resume"] = 0,
                            !.s.audioContext = IF @ = "none" THEN @ ELSE "running"]
       IN  MainStep(AfterResume(S, ops.start["resume"]), toMain, toWorker)
    /\ UNCHANGED handledCount

ResumeRejects ==
    /\ ops.start["resume"] > 0 /\ ops.stop = 0
    /\ MainStep(AfterResumeRejected([Cur EXCEPT !.o.start["resume"] = 0], ops.start["resume"]),
                toMain, toWorker)
    /\ UNCHANGED handledCount

AddModuleResolves ==
    /\ ops.start["addModule"] > 0
    /\ LET S == [Cur EXCEPT !.o.start["addModule"] = @ - 1]
       IN  MainStep(IF S.s.audioContext = "none" THEN StartRefused(S)   \* new AudioWorkletNode throws
                    ELSE StartMicrophone([S EXCEPT !.s.pitchForwarderNode = TRUE]),
                    toMain, toWorker)
    /\ UNCHANGED handledCount

\* addModule() calls for one URL share the worklet's module map entry: they
\* fail together, and none fails once the module has been added (a node of
\* the processor exists).
RECURSIVE AfterAddModuleRejected(_, _)
AfterAddModuleRejected(S, k) ==
    IF k = 0 THEN S ELSE AfterAddModuleRejected(StartRefused(S), k - 1)

AddModuleRejects ==
    /\ ops.start["addModule"] > 0
    /\ ~service.pitchForwarderNode
    /\ MainStep(AfterAddModuleRejected([Cur EXCEPT !.o.start["addModule"] = 0],
                                       ops.start["addModule"]),
                toMain, toWorker)
    /\ UNCHANGED handledCount

GetUserMediaResolves ==
    /\ ops.start["getUserMedia"] > 0
    /\ LET S == [Cur EXCEPT !.o.start["getUserMedia"] = @ - 1, !.s.mediaStream = TRUE]
       IN  MainStep(IF S.s.audioContext = "none" THEN StartCatch(S)  \* createMediaStreamSource: TypeError
                    ELSE StartConnect([S EXCEPT !.s.microphoneNode = TRUE]),
                    toMain, toWorker)
    /\ UNCHANGED handledCount

GetUserMediaRejects ==
    /\ ops.start["getUserMedia"] > 0
    /\ MainStep(StartCatch([Cur EXCEPT !.o.start["getUserMedia"] = @ - 1]), toMain, toWorker)
    /\ UNCHANGED handledCount

\* A stop() whose await also needs the worker to be out of its inference
StopAwaitsSuspendAndWorker == ops.stop > 0 /\ workerModel # "hung"

\* A stop() waits at await this.audioContext.suspend(): the context alone
\* settles it
StopAwaitsSuspend == ops.stop > 0

SuspendResolves ==
    /\ StopAwaitsSuspend
    /\ LET S == [Cur EXCEPT !.o.stop = @ - 1,
                            !.s.audioContext = IF @ = "none" THEN @ ELSE "suspended"]
           \* cleanup() has removed the onstatechange handler
       IN  MainStep(StopProcessingEnd(IF S.o.cleanup = {} THEN OnStateChange(S) ELSE S),
                    toMain, toWorker)
    /\ UNCHANGED handledCount

SuspendRejects ==
    /\ StopAwaitsSuspend
    /\ MainStep(StopProcessingEnd(HandleError([Cur EXCEPT !.o.stop = @ - 1])), toMain, toWorker)
    /\ UNCHANGED handledCount

CloseSettles ==
    /\ \E caller \in ops.cleanup : MainStep(CleanupEnd(Cur, caller), toMain, toWorker)
    /\ UNCHANGED handledCount

\* ---- events ----
\* The context stops running by itself (the capture device goes away)
ContextInterrupted ==
    /\ service.audioContext = "running" /\ ops.cleanup = {}
    /\ MainStep(OnStateChange([Cur EXCEPT !.s.audioContext = "suspended"]), toMain, toWorker)
    /\ UNCHANGED handledCount

\* worker.onerror
WorkerOnError ==
    /\ service.worker
    /\ MainStep(Cleanup(HandleError(Cur), "service"), toMain, toWorker)
    /\ UNCHANGED handledCount

\* worker.onmessage
OnMessagePitch ==
    /\ toMain # <<>> /\ Head(toMain).type = "pitch"
    /\ MainStep(OnPitch(Cur, Head(toMain).pitch, Head(toMain).confidence), Tail(toMain), toWorker)
    /\ handledCount' = handledCount + 1

OnMessageModelLoaded ==
    /\ toMain # <<>> /\ Head(toMain).type = "model_loaded"
    /\ \E created \in NewContexts : MainStep(OnModelLoaded(Cur, created), Tail(toMain), toWorker)
    /\ UNCHANGED handledCount

OnMessageError ==
    /\ toMain # <<>> /\ Head(toMain).type = "error"
    /\ MainStep(HandleError(Cur), Tail(toMain), toWorker)
    /\ UNCHANGED handledCount

\* pitchForwarderNode.port.onmessage
PortOnMessage ==
    /\ toService # <<>>
    /\ toService' = Tail(toService)
    /\ toWorker' = IF service.pitchForwarderNode /\ service.worker
                   THEN Append(toWorker, Head(toService)) ELSE toWorker
    /\ page' = Cur.p
    /\ UNCHANGED <<workerVars, ghostVars, service, ops, now, sessionGhostVars>>

\* ---- the worklet: PitchForwarderProcessor.process ----
SessionChunkLen == NUM_INPUT_SAMPLES
Capture ==
    /\ service.connected /\ service.audioContext = "running"
    /\ captured < MaxChunks
    /\ captured' = captured + 1
    /\ toService' = Append(toService, SessionChunkLen)
    /\ UNCHANGED <<workerVars, ghostVars, page, service, ops, toWorker, now, postedLog, handledCount>>

\* ---- the worker ----
SessionOutputs == { ModelAnswer(<<<<10, 633>>>>), ModelAnswer(<<<<30, 633>>>>), ModelThrows }

WorkerOnMessage ==
    /\ toWorker # <<>>
    /\ workerModel \in {"loading", "loaded", "failed"}
    /\ LET n == Head(toWorker)
       IN  \E outputs \in UNION {[1..k -> SessionOutputs] : k \in 0..((bufferPos + n) \div NUM_INPUT_SAMPLES)} :
               /\ WorkerOnAudioData([j \in 1..n |-> 0], outputs)
               /\ postedLog' = IF modelLoaded
                               THEN postedLog \o
                                    [k \in 1..Len(SelectSeq(outputs, LAMBDA o : ~o.throws)) |->
                                        RunModel(SelectSeq(outputs, LAMBDA o : ~o.throws)[k]).confidence]
                               ELSE postedLog
    /\ toWorker' = Tail(toWorker)
    /\ UNCHANGED <<ghostVars, page, service, ops, toService, now, captured, handledCount>>

Tick ==
    /\ now < (MaxTicks + 1) * TickMs
    /\ now' = now + TickMs
    /\ UNCHANGED <<workerVars, ghostVars, page, service, ops, toService, toWorker, sessionGhostVars>>

MainIdle ==
    /\ page = InitPageSignals
    /\ service = InitService
    /\ ops = InitOps
    /\ toService = <<>>
    /\ toWorker = <<>>
    /\ now = TickMs
    /\ captured = 0
    /\ postedLog = <<>>
    /\ handledCount = 0

Init ==
    /\ workerModel = "none"
    /\ sampleBuffer = [i \in 1..NUM_INPUT_SAMPLES |-> 0]
    /\ bufferPos = 0
    /\ toMain = <<>>
    /\ fed = 0
    /\ fedUnloaded = 0
    /\ windows = <<>>
    /\ liveWorkers = 0
    /\ MainIdle

Next ==
    \/ UIInitializeAudio
    \/ UIStartProcessing
    \/ UIStopProcessing
    \/ PageCleanup
    \/ ResumeResolves
    \/ ResumeRejects
    \/ AddModuleResolves
    \/ AddModuleRejects
    \/ GetUserMediaResolves
    \/ GetUserMediaRejects
    \/ SuspendResolves
    \/ SuspendRejects
    \/ CloseSettles
    \/ ContextInterrupted
    \/ WorkerOnError
    \/ OnMessagePitch
    \/ OnMessageModelLoaded
    \/ OnMessageError
    \/ PortOnMessage
    \/ Capture
    \/ WorkerOnMessage
    \/ WorkerLoadModel
    \/ WorkerLoadModelFails
    \/ Tick

Spec == Init /\ [][Next]_vars

(***************************************************************************)
(* SpecServiceApi: one PitchDetectionService driven through its public     *)
(* methods initialize(), start() and cleanup(), called in any order and in *)
(* any state, with the page's handlers as its callbacks.  The caller is    *)
(* not the page (the page holds no instance, so the continuations of its   *)
(* own startProcessing do nothing).  A Worker that initialize() constructs *)
(* over an earlier one replaces it in this.worker; the earlier one is      *)
(* never terminated and is followed no further than being counted.         *)
(***************************************************************************)
MaxLiveWorkers == 2

\* The state a task leaves when it may have constructed a Worker over another
ApiStep(S, constructed) ==
    LET terminated == service.worker /\ ~S.s.worker
    IN  /\ page' = S.p
        /\ service' = S.s
        /\ ops' = S.o
        /\ workerModel' = IF terminated THEN "terminated"
                          ELSE IF constructed THEN "loading" ELSE workerModel
        /\ toMain' = IF terminated THEN <<>> ELSE toMain
        /\ toWorker' = IF terminated THEN <<>> ELSE toWorker
        /\ liveWorkers' = liveWorkers + (IF constructed THEN 1 ELSE 0)
                                      - (IF terminated THEN 1 ELSE 0)
        /\ UNCHANGED <<sampleBuffer, bufferPos, toService, now, fed, fedUnloaded, windows,
                       sessionGhostVars>>

ApiInitialize ==
    /\ liveWorkers < MaxLiveWorkers
    /\ \E workerThrows \in BOOLEAN :
           ApiStep(Initialize(Cur, workerThrows),
                   ~service.isInitialized /\ ~service.modelReady /\ ~workerThrows)

ApiStart ==
    /\ PendingStarts < MaxStarts
    /\ \E created \in NewContexts : MainStep(Start(Cur, created), toMain, toWorker)
    /\ UNCHANGED handledCount

ApiCleanup ==
    /\ "service" \notin ops.cleanup
    /\ MainStep(Cleanup(Cur, "service"), toMain, toWorker)
    /\ UNCHANGED handledCount

NextServiceApi ==
    \/ ApiInitialize
    \/ ApiStart
    \/ ApiCleanup
    \/ ResumeResolves
    \/ AddModuleResolves
    \/ GetUserMediaResolves
    \/ CloseSettles
    \/ OnMessageModelLoaded
    \/ OnMessageError
    \/ OnMessagePitch
    \/ PortOnMessage
    \/ Capture
    \/ WorkerOnMessage
    \/ WorkerLoadModel
    \/ WorkerLoadModelFails

SpecServiceApi == Init /\ [][NextServiceApi]_vars

(***************************************************************************)
(* SpecConsumer: the session with a consumer whose callbacks may throw.    *)
(* A callback that throws is taken to throw on entry: it changes nothing   *)
(* on the consumer's side.  The call sites are those of worker.onmessage,  *)
(* worker.onerror, checkInitializationComplete and the catch of start().   *)
(***************************************************************************)
ThrowingCallback(S) == [S EXCEPT !.p.thrown = @ + 1]

\* worker.onmessage, type 'pitch': onPitchUpdate throws, nothing catches it
OnMessagePitchThrows ==
    /\ page.thrown < MaxThrows
    /\ toMain # <<>> /\ Head(toMain).type = "pitch"
    /\ LET S == [Cur EXCEPT !.s.smoothedPitch = Smooth(Head(toMain).pitch, @,
                                                            service.smoothingFactorInternal)]
       IN  MainStep(ThrowingCallback(S), Tail(toMain), toWorker)
    /\ handledCount' = handledCount + 1

\* worker.onmessage, type 'model_loaded': onModelLoaded throws inside the try
\* of checkInitializationComplete, whose catch calls onError
OnMessageModelLoadedThrows ==
    /\ page.thrown < MaxThrows
    /\ toMain # <<>> /\ Head(toMain).type = "model_loaded"
    /\ ~service.isInitialized
    /\ LET S == [Cur EXCEPT !.s.modelReady = TRUE, !.s.isInitialized = TRUE]
       IN  MainStep(HandleError(ThrowingCallback(S)), Tail(toMain), toWorker)
    /\ UNCHANGED handledCount

\* worker.onmessage, type 'error': onError throws, nothing catches it
OnMessageErrorThrows ==
    /\ page.thrown < MaxThrows
    /\ toMain # <<>> /\ Head(toMain).type = "error"
    /\ MainStep(ThrowingCallback(Cur), Tail(toMain), toWorker)
    /\ UNCHANGED handledCount

\* worker.onerror: onError throws, this.cleanup() is not reached
WorkerOnErrorThrows ==
    /\ page.thrown < MaxThrows
    /\ service.worker
    /\ MainStep(ThrowingCallback(Cur), toMain, toWorker)
    /\ UNCHANGED handledCount

\* start(): getUserMedia rejects and onError throws in the catch block:
\* stopInternal is not reached, start() and startProcessing reject
GetUserMediaRejectsThrows ==
    /\ page.thrown < MaxThrows
    /\ ops.start["getUserMedia"] > 0
    /\ MainStep(ThrowingCallback([Cur EXCEPT !.o.start["getUserMedia"] = @ - 1]), toMain, toWorker)
    /\ UNCHANGED handledCount

NextConsumer ==
    \/ Next
    \/ OnMessagePitchThrows
    \/ OnMessageModelLoadedThrows
    \/ OnMessageErrorThrows
    \/ WorkerOnErrorThrows
    \/ GetUserMediaRejectsThrows

SpecConsumer == Init /\ [][NextConsumer]_vars

(***************************************************************************)
(* SpecSegmenter: the history and the segments of a Processing session.    *)
(* Observations arrive from the service as the worker produces them (no    *)
(* pitch with confidence 0, or a pitch with confidence >= CONF_THRESHOLD), *)
(* the clock advances by minNoteDuration - 1 or minNoteDuration between    *)
(* them, stopProcessing's final segmentation re-runs the segmenter, and an *)
(* error clears the history.                                               *)
(***************************************************************************)
\* The session after initializeAudio, model_loaded and a successful start()
ProcessingSession ==
    /\ page = [InitPageSignals EXCEPT !.isProcessing = TRUE, !.isServiceReady = TRUE,
                                      !.serviceInstance = TRUE]
    /\ service = [worker |-> TRUE, isInitialized |-> TRUE, modelReady |-> TRUE,
                  isProcessing |-> TRUE, smoothedPitch |-> NoPitch, audioContext |-> "running",
                  pitchForwarderNode |-> TRUE, microphoneNode |-> TRUE, mediaStream |-> TRUE,
                  connected |-> TRUE,
                  smoothingFactorInternal |-> ConstructorSmoothingFactor(smoothingFactorInternal)]
    /\ ops = InitOps
    /\ workerModel = "loaded"
    /\ toMain = <<>> /\ toService = <<>> /\ toWorker = <<>>
    /\ captured = 0 /\ postedLog = <<>> /\ handledCount = 0

InitSegmenter ==
    /\ ProcessingSession
    /\ now = TickMs
    /\ sampleBuffer = [i \in 1..NUM_INPUT_SAMPLES |-> 0]
    /\ bufferPos = 0
    /\ fed = 0
    /\ fedUnloaded = 0
    /\ windows = <<>>
    /\ liveWorkers = 1

SegDeltas == {minNoteDuration - 1, minNoteDuration}
SegObservations == { PitchMsg(NoPitch, 0), PitchMsg(440, CONF_THRESHOLD), PitchMsg(440, 90),
                     PitchMsg(880, 90) }

\* worker.onmessage, type 'pitch', for an observation of the worker
SegObserve ==
    /\ Len(page.fullPitchHistory) < MaxPoints
    /\ \E msg \in SegObservations :
           LET S == OnPitch(Cur, msg.pitch, msg.confidence)
           IN  page' = S.p /\ service' = S.s
    /\ UNCHANGED <<workerVars, ghostVars, ops, toService, toWorker, now, sessionGhostVars>>

\* Date.now() advances
SegTick ==
    /\ \E dt \in SegDeltas : now + dt <= MaxSegTime /\ now' = now + dt
    /\ UNCHANGED <<workerVars, ghostVars, page, service, ops, toService, toWorker, sessionGhostVars>>

\* stopProcessing: the final segmentation
SegFinalSegmentation ==
    /\ page' = StopProcessingEnd(Cur).p
    /\ UNCHANGED <<workerVars, ghostVars, service, ops, toService, toWorker, now, sessionGhostVars>>

\* handleError
SegClear ==
    /\ page' = HandleError(Cur).p
    /\ UNCHANGED <<workerVars, ghostVars, service, ops, toService, toWorker, now, sessionGhostVars>>

NextSegmenter ==
    \/ SegObserve
    \/ SegTick
    \/ SegFinalSegmentation
    \/ SegClear

SpecSegmenter == InitSegmenter /\ [][NextSegmenter]_vars

(***************************************************************************)
(* SpecHung: a Processing session with an inference call that may never    *)
(* return.  The worker takes the audio message that completes a window, calls       *)
(* model.execute and stays there: it handles no further message and posts  *)
(* nothing until it is terminated.  The audio context settles the          *)
(* suspend() and close() promises it was asked for (weak fairness);        *)
(* nothing is assumed of the worker, the user or the other promises.       *)
(***************************************************************************)
WorkerHangs ==
    /\ toWorker # <<>> /\ workerModel = "loaded"
    /\ bufferPos + Head(toWorker) >= NUM_INPUT_SAMPLES
    /\ workerModel' = "hung"
    /\ toWorker' = Tail(toWorker)
    /\ UNCHANGED <<sampleBuffer, bufferPos, toMain, ghostVars, page, service, ops,
                   toService, now, sessionGhostVars>>

NextHung ==
    \/ UIStartProcessing
    \/ UIStopProcessing
    \/ PageCleanup
    \/ ResumeResolves
    \/ ResumeRejects
    \/ SuspendResolves
    \/ SuspendRejects
    \/ CloseSettles
    \/ ContextInterrupted
    \/ WorkerOnError
    \/ OnMessagePitch
    \/ OnMessageError
    \/ PortOnMessage
    \/ Capture
    \/ WorkerOnMessage
    \/ WorkerHangs
    \/ Tick

SpecHung ==
    /\ InitSegmenter /\ [][NextHung]_vars
    /\ WF_vars(SuspendResolves \/ SuspendRejects)
    /\ WF_vars(CloseSettles)

(***************************************************************************)
(* SpecMerge: the segmenter over histories of several runs.  The session   *)
(* is Processing and has handled, for each of up to MaxRuns runs, a voiced *)
(* observation at the start of the run, the same observation at its end,   *)
(* and an unvoiced one at that same time; the run lasts one of             *)
(* MergeDurations and starts one of MergeGaps after the end of the run     *)
(* before.  From there the handlers of SpecSegmenter run.                  *)
(***************************************************************************)
MergeVoiced == { PitchMsg(440, 90), PitchMsg(446, CONF_THRESHOLD), PitchMsg(880, 90) }
MergeDurations == {2 * minNoteDuration, 2 * minNoteDuration + 20}
MergeGaps == {0, 30, maxGapForMerge - 1, maxGapForMerge}

\* newHistoryPoint of handlePitchUpdate, at adjusted time x
NewHistoryPoint(x, smoothedPitchHz, detectedConfidence) ==
    [x |-> x, y |-> GetNoteDetails(smoothedPitchHz).midi,
     confidence |-> detectedConfidence,
     continuousMidi |-> GetNoteDetails(smoothedPitchHz).continuousMidi]

\* The history after runs i..k, the first of them starting at time start
RECURSIVE RunsHistory(_, _, _, _, _, _)
RunsHistory(obs, durs, gaps, i, k, start) ==
    IF i > k THEN <<>>
    ELSE << NewHistoryPoint(start, obs[i].pitch, obs[i].confidence),
            NewHistoryPoint(start + durs[i], obs[i].pitch, obs[i].confidence),
            NewHistoryPoint(start + durs[i], NoPitch, 0) >>
         \o (IF i = k THEN <<>>
             ELSE RunsHistory(obs, durs, gaps, i + 1, k, start + durs[i] + gaps[i + 1]))

InitMerge ==
    /\ \E k \in 1..MaxRuns :
         \E obs \in [1..k -> MergeVoiced], durs \in [1..k -> MergeDurations],
            gaps \in [1..k -> MergeGaps] :
             LET history == RunsHistory(obs, durs, gaps, 1, k, 0)
             IN  /\ gaps[1] = 0
                 /\ now = history[Len(history)].x
                 /\ page = [InitPageSignals EXCEPT
                               !.isProcessing = TRUE, !.isServiceReady = TRUE,
                               !.serviceInstance = TRUE,
                               !.pitchHistory = history, !.fullPitchHistory = history,
                               !.segmentedNotes = GenerateMidiSegments(history, <<>>),
                               !.segRuns = 1]
    /\ service = [worker |-> TRUE, isInitialized |-> TRUE, modelReady |-> TRUE,
                  isProcessing |-> TRUE, smoothedPitch |-> NoPitch, audioContext |-> "running",
                  pitchForwarderNode |-> TRUE, microphoneNode |-> TRUE, mediaStream |-> TRUE,
                  connected |-> TRUE,
                  smoothingFactorInternal |-> ConstructorSmoothingFactor(smoothingFactorInternal)]
    /\ ops = InitOps
    /\ workerModel = "loaded"
    /\ toMain = <<>> /\ toService = <<>> /\ toWorker = <<>>
    /\ captured = 0 /\ postedLog = <<>> /\ handledCount = 0
    /\ sampleBuffer = [i \in 1..NUM_INPUT_SAMPLES |-> 0]
    /\ bufferPos = 0
    /\ fed = 0
    /\ fedUnloaded = 0
    /\ windows = <<>>
    /\ liveWorkers = 1

SpecMerge == InitMerge /\ [][NextSegmenter]_vars

(***************************************************************************)
(* SpecRuns and SpecRunsDemo: pass 1 over histories whose neighbouring     *)
(* voiced points differ by a fraction of a semitone.  The service blends   *)
(* with smoothingFactor 0.9, so two observations in a row end up less than *)
(* a tenth of a semitone or more than a semitone apart; a stop and a start *)
(* in between empty the smoother and let the next point land anywhere.     *)
(* SpecRuns is the page with the hyperparameter signals, SpecRunsDemo the  *)
(* page of src/pages/Demo.tsx.                                             *)
(***************************************************************************)
RunObservations == { PitchMsg(NoPitch, 0), PitchMsg(440, 90), PitchMsg(458, CONF_THRESHOLD),
                     PitchMsg(476, 90) }

\* worker.onmessage, type 'pitch'
RunObserve ==
    /\ Len(page.fullPitchHistory) < MaxRunPoints
    /\ \E msg \in RunObservations :
           LET S == OnPitch(Cur, msg.pitch, msg.confidence)
           IN  page' = S.p /\ service' = S.s
    /\ UNCHANGED <<workerVars, ghostVars, ops, toService, toWorker, now, sessionGhostVars>>

NextRuns ==
    \/ RunObserve
    \/ SegTick
    \/ UIStopProcessing
    \/ SuspendResolves
    \/ UIStartProcessing
    \/ ResumeResolves

SpecRuns == InitSegmenter /\ [][NextRuns]_vars

\* worker.onmessage, type 'pitch', on the page of Demo.tsx
DemoObserve ==
    /\ Len(page.fullPitchHistory) < MaxRunPoints
    /\ \E msg \in RunObservations :
           LET S == DemoPage(OnPitch(Cur, msg.pitch, msg.confidence))
           IN  page' = S.p /\ service' = S.s
    /\ UNCHANGED <<workerVars, ghostVars, ops, toService, toWorker, now, sessionGhostVars>>

\* stopProcessing on the page of Demo.tsx
DemoStopProcessing ==
    /\ page.mounted
    /\ page.isProcessing
    /\ ops.stop < MaxStops
    /\ MainStep(DemoPage(StopProcessing(Cur)), toMain, toWorker)
    /\ UNCHANGED handledCount

\* await serviceInstance.stop() returns on the page of Demo.tsx
DemoSuspendResolves ==
    /\ StopAwaitsSuspend
    /\ LET S == [Cur EXCEPT !.o.stop = @ - 1,
                            !.s.audioContext = IF @ = "none" THEN @ ELSE "suspended"]
       IN  MainStep(DemoPage(StopProcessingEnd(IF S.o.cleanup = {} THEN OnStateChange(S) ELSE S)),
                    toMain, toWorker)
    /\ UNCHANGED handledCount

NextRunsDemo ==
    \/ DemoObserve
    \/ SegTick
    \/ DemoStopProcessing
    \/ DemoSuspendResolves
    \/ UIStartProcessing
    \/ ResumeResolves

SpecRunsDemo == InitSegmenter /\ [][NextRunsDemo]_vars

(***************************************************************************)
(* SpecMergeDemo: the segmenter of src/pages/Demo.tsx over histories of    *)
(* several runs, built as those of SpecMerge from observations whose       *)
(* averages lie 0.39 (450 Hz) and 0.5 (453 Hz) semitones above A4.         *)
(***************************************************************************)
DemoMergeVoiced == { PitchMsg(440, 90), PitchMsg(450, CONF_THRESHOLD), PitchMsg(453, 90) }

InitMergeDemo ==
    /\ \E k \in 1..MaxRuns :
         \E obs \in [1..k -> DemoMergeVoiced], durs \in [1..k -> MergeDurations],
            gaps \in [1..k -> MergeGaps] :
             LET history == RunsHistory(obs, durs, gaps, 1, k, 0)
             IN  /\ gaps[1] = 0
                 /\ now = history[Len(history)].x
                 /\ page = [InitPageSignals EXCEPT
                               !.isProcessing = TRUE, !.isServiceReady = TRUE,
                               !.serviceInstance = TRUE,
                               !.pitchHistory = history, !.fullPitchHistory = history,
                               !.segmentedNotes = DemoGenerateMidiSegments(history, <<>>),
                               !.segRuns = 1]
    /\ service = [worker |-> TRUE, isInitialized |-> TRUE, modelReady |-> TRUE,
                  isProcessing |-> TRUE, smoothedPitch |-> NoPitch, audioContext |-> "running",
                  pitchForwarderNode |-> TRUE, microphoneNode |-> TRUE, mediaStream |-> TRUE,
                  connected |-> TRUE,
                  smoothingFactorInternal |-> ConstructorSmoothingFactor(smoothingFactorInternal)]
    /\ ops = InitOps
    /\ workerModel = "loaded"
    /\ toMain = <<>> /\ toService = <<>> /\ toWorker = <<>>
    /\ captured = 0 /\ postedLog = <<>> /\ handledCount = 0
    /\ sampleBuffer = [i \in 1..NUM_INPUT_SAMPLES |-> 0]
    /\ bufferPos = 0
    /\ fed = 0
    /\ fedUnloaded = 0
    /\ windows = <<>>
    /\ liveWorkers = 1

\* worker.onmessage, type 'pitch', on the page of Demo.tsx
DemoSegObserve ==
    /\ Len(page.fullPitchHistory) < MaxPoints
    /\ \E msg \in SegObservations :
           LET S == DemoPage(OnPitch(Cur, msg.pitch, msg.confidence))
           IN  page' = S.p /\ service' = S.s
    /\ UNCHANGED <<workerVars, ghostVars, ops, toService, toWorker, now, sessionGhostVars>>

\* Demo.tsx, stopProcessing: the final segmentation
DemoFinalSegmentation ==
    /\ page' = DemoPage(StopProcessingEnd(Cur)).p
    /\ UNCHANGED <<workerVars, ghostVars, service, ops, toService, toWorker, now, sessionGhostVars>>

NextMergeDemo ==
    \/ DemoSegObserve
    \/ SegTick
    \/ DemoFinalSegmentation
    \/ SegClear

SpecMergeDemo == InitMergeDemo /\ [][NextMergeDemo]_vars

(***************************************************************************)
(* SpecSmoother: the service's smoothing on its own.  Frequencies are in   *)
(* hundredths of a hertz here, so that 466.16 Hz is a value and a blend    *)
(* keeps two decimals (the code blends in double precision).  The session  *)
(* is initialized and started; the worker posts observations and the       *)
(* service handles them, handing the smoothed value to a consumer that     *)
(* keeps the pitch and the confidence it was given.                        *)
(***************************************************************************)
\* 466.16 Hz is 99.985 cents above 440 Hz, 466.17 Hz is 100.02 cents above
SmootherObservations ==
    { PitchMsg(NoPitch, 0), PitchMsg(44000, 90), PitchMsg(44600, 90),
      PitchMsg(46616, 90), PitchMsg(46617, CONF_THRESHOLD), PitchMsg(88000, 90) }

\* An onPitchUpdate that keeps what it was given
RecordingCallback(S, smoothedPitchHz, detectedConfidence) ==
    [S EXCEPT !.p.pitch = smoothedPitchHz, !.p.confidence = detectedConfidence]

\* worker.onmessage, type 'pitch', with that consumer
OnPitchRecorded(S, detectedPitch, confidence) ==
    LET smoothed == Smooth(detectedPitch, S.s.smoothedPitch, S.s.smoothingFactorInternal)
    IN  RecordingCallback([S EXCEPT !.s.smoothedPitch = smoothed], smoothed, confidence)

\* options.smoothingFactor: below the range, none (the default), the demo
\* page's 0.9, above the range
SmoothingFactors == {0 - 100, 0, smoothingFactorInternal, 1000}

InitSmoother ==
    /\ page = [InitPageSignals EXCEPT !.isProcessing = TRUE, !.isServiceReady = TRUE,
                                      !.serviceInstance = TRUE]
    /\ \E smoothingFactor \in SmoothingFactors :
           service = [worker |-> TRUE, isInitialized |-> TRUE, modelReady |-> TRUE,
                      isProcessing |-> TRUE, smoothedPitch |-> NoPitch,
                      audioContext |-> "running",
                      pitchForwarderNode |-> TRUE, microphoneNode |-> TRUE,
                      mediaStream |-> TRUE, connected |-> TRUE,
                      smoothingFactorInternal |-> ConstructorSmoothingFactor(smoothingFactor)]
    /\ ops = InitOps
    /\ workerModel = "loaded"
    /\ toMain = <<>> /\ toService = <<>> /\ toWorker = <<>>
    /\ captured = 0 /\ postedLog = <<>> /\ handledCount = 0
    /\ now = TickMs
    /\ sampleBuffer = [i \in 1..NUM_INPUT_SAMPLES |-> 0]
    /\ bufferPos = 0
    /\ fed = 0
    /\ fedUnloaded = 0
    /\ windows = <<>>
    /\ liveWorkers = 1

\* The worker posts an observation; postedLog keeps the pitches posted
SmootherPost ==
    /\ handledCount + Len(toMain) < MaxObservations
    /\ \E msg \in SmootherObservations :
           /\ toMain' = Append(toMain, msg)
           /\ postedLog' = Append(postedLog, msg.pitch)
    /\ UNCHANGED <<sampleBuffer, bufferPos, workerModel, ghostVars, page, service, ops,
                   toService, toWorker, now, captured, handledCount>>

\* worker.onmessage
SmootherOnMessage ==
    /\ toMain # <<>> /\ Head(toMain).type = "pitch"
    /\ LET S == OnPitchRecorded(Cur, Head(toMain).pitch, Head(toMain).confidence)
       IN  page' = S.p /\ service' = S.s
    /\ toMain' = Tail(toMain)
    /\ handledCount' = handledCount + 1
    /\ UNCHANGED <<sampleBuffer, bufferPos, workerModel, ghostVars, ops,
                   toService, toWorker, now, captured, postedLog>>

NextSmoother ==
    \/ SmootherPost
    \/ SmootherOnMessage

SpecSmoother == InitSmoother /\ [][NextSmoother]_vars

(***************************************************************************)
(* SpecNotes: getNoteDetails over frequencies given by their continuous    *)
(* MIDI number, every sixteenth of a semitone around MIDI 0 (8.18 Hz) and  *)
(* around A4; the halfway points between two notes are among them.  The    *)
(* session is Processing; an observation's note details are computed and   *)
(* kept in the noteDetails signal.                                         *)
(***************************************************************************)
NoteInputs == ((0 - 2 * MidiUnit)..(2 * MidiUnit)) \cup ((68 * MidiUnit)..(70 * MidiUnit))

\* handlePitchUpdate: currentNoteDetails = getNoteDetails(smoothedPitchHz) and
\* setNoteDetails(currentNoteDetails)
NotesObserve ==
    /\ handledCount < MaxNoteObservations
    /\ \E continuousMidi \in NoteInputs :
           page' = [Cur.p EXCEPT !.noteDetails = NoteDetails(continuousMidi)]
    /\ handledCount' = handledCount + 1
    /\ UNCHANGED <<workerVars, ghostVars, service, ops, toService, toWorker, now,
                   captured, postedLog>>

SpecNotes == InitSegmenter /\ [][NotesObserve]_vars

(***************************************************************************)
(* SpecWorker: the worker fed with chunks of the sample stream 1, 2, 3, .. *)
(* (sample number n has value n, so a window shows which samples it holds) *)
(***************************************************************************)
\* Chunk lengths: one sample, the usual device callback (an eighth of a window;
\* 128 of 1024 in the source), just short of a window, a window, one more than a
\* window, more than two windows
ChunkLens == {1, Max(1, NUM_INPUT_SAMPLES \div 8), NUM_INPUT_SAMPLES - 1, NUM_INPUT_SAMPLES,
              NUM_INPUT_SAMPLES + 1, 2 * NUM_INPUT_SAMPLES + 3}

Chunk(from, n) == [j \in 1..n |-> from + j]

InitWorker ==
    /\ workerModel = "loading"
    /\ sampleBuffer = [i \in 1..NUM_INPUT_SAMPLES |-> 0]
    /\ bufferPos = 0
    /\ toMain = <<>>
    /\ fed = 0
    /\ fedUnloaded = 0
    /\ windows = <<>>
    /\ liveWorkers = 1
    /\ MainIdle

FeedChunk ==
    \E n \in ChunkLens :
        /\ fed + n <= MaxSamples
        /\ \E outputs \in UNION {[1..k -> ModelOutputs] : k \in 0..((bufferPos + n) \div NUM_INPUT_SAMPLES)} :
               WorkerOnAudioData(Chunk(fed, n), outputs)
        /\ fed' = fed + n
        /\ fedUnloaded' = IF modelLoaded THEN fedUnloaded ELSE fedUnloaded + n
        /\ UNCHANGED liveWorkers
        /\ windows' = IF modelLoaded
                      THEN windows \o CopyLoop(Chunk(fed, n), 0, sampleBuffer, bufferPos, <<>>).full
                      ELSE windows
        /\ UNCHANGED <<mainVars, sessionGhostVars>>

NextWorker ==
    \/ WorkerLoadModel
    \/ WorkerLoadModelFails
    \/ FeedChunk

SpecWorker == InitWorker /\ [][NextWorker]_vars

(***************************************************************************)
(* SpecWorkerInbox: the worker with its message queue.  The main thread    *)
(* posts audioData messages (chunks of the sample stream 1, 2, 3, ..,      *)
(* empty chunks included) and messages of another type; the worker         *)
(* dispatches them one at a time, in order.  captured counts the samples   *)
(* posted, handledCount the messages of another type dispatched.           *)
(***************************************************************************)
MaxInbox == 2
MaxUnknown == 2
InboxChunkLens == {0, 1, NUM_INPUT_SAMPLES - 1, NUM_INPUT_SAMPLES, 2 * NUM_INPUT_SAMPLES + 3}

AudioDataMsg(audioData) == [type |-> "audioData", data |-> audioData]
\* the 'load' message the worker no longer handles
LoadMsg == [type |-> "load", data |-> <<>>]

\* An unknown message type moves the cursor back to the start of the buffer
SelfOnMessageUnknownResets(data, outputs) ==
    IF data.type = "audioData"
    THEN WorkerOnAudioData(data.data, outputs)
    ELSE /\ outputs = <<>>
         /\ bufferPos' = 0
         /\ UNCHANGED <<workerModel, sampleBuffer, toMain>>

\* self.onmessage
SelfOnMessage(data, outputs) ==
    IF data.type = "audioData"
    THEN WorkerOnAudioData(data.data, outputs)
    ELSE /\ outputs = <<>>
         /\ UNCHANGED <<workerModel, sampleBuffer, bufferPos, toMain>>

PostAudioData ==
    /\ Len(toWorker) < MaxInbox
    /\ \E n \in InboxChunkLens :
           /\ captured + n <= MaxSamples
           /\ toWorker' = Append(toWorker, AudioDataMsg(Chunk(captured, n)))
           /\ captured' = captured + n
    /\ UNCHANGED <<workerVars, ghostVars, page, service, ops, toService, now,
                   postedLog, handledCount>>

PostUnknown ==
    /\ Len(toWorker) < MaxInbox
    /\ Len(SelectSeq(toWorker, LAMBDA m : m.type # "audioData")) + handledCount < MaxUnknown
    /\ toWorker' = Append(toWorker, LoadMsg)
    /\ UNCHANGED <<workerVars, ghostVars, page, service, ops, toService, now,
                   sessionGhostVars>>

DispatchAudioData ==
    /\ toWorker # <<>>
    /\ Head(toWorker).type = "audioData"
    /\ LET audioData == Head(toWorker).data
           n == Len(audioData)
       IN  /\ \E outputs \in UNION {[1..k -> ModelOutputs] :
                                        k \in 0..((bufferPos + n) \div NUM_INPUT_SAMPLES)} :
                   SelfOnMessage(Head(toWorker), outputs)
           /\ fed' = fed + n
           /\ fedUnloaded' = IF modelLoaded THEN fedUnloaded ELSE fedUnloaded + n
           /\ UNCHANGED liveWorkers
           /\ windows' = IF modelLoaded
                         THEN windows \o CopyLoop(audioData, 0, sampleBuffer, bufferPos, <<>>).full
                         ELSE windows
    /\ toWorker' = Tail(toWorker)
    /\ UNCHANGED <<page, service, ops, toService, now, sessionGhostVars>>

DispatchUnknown ==
    /\ toWorker # <<>>
    /\ Head(toWorker).type # "audioData"
    /\ SelfOnMessage(Head(toWorker), <<>>)
    /\ toWorker' = Tail(toWorker)
    /\ handledCount' = handledCount + 1
    /\ UNCHANGED <<ghostVars, page, service, ops, toService, now, captured, postedLog>>

NextWorkerInbox ==
    \/ WorkerLoadModel
    \/ WorkerLoadModelFails
    \/ PostAudioData
    \/ PostUnknown
    \/ DispatchAudioData
    \/ DispatchUnknown

SpecWorkerInbox == InitWorker /\ [][NextWorkerInbox]_vars

(***************************************************************************)
(* SpecInference: the loaded worker fed one window a message, the model    *)
(* answering with up to MaxBins bins: at the threshold, a hundredth below  *)
(* it, above it, and two of equal confidence with different pitches.       *)
(* postedLog keeps the model's answers.                                    *)
(***************************************************************************)
InferenceBins ==
    { <<100 - CONF_THRESHOLD, 633>>, <<100 - CONF_THRESHOLD + 1, 637>>,
      <<10, 443>>, <<10, 823>>, <<5, 637>> }
InferenceOutputs ==
    { ModelAnswer(bins) : bins \in UNION {[1..k -> InferenceBins] : k \in 0..MaxBins} }
        \cup {ModelThrows}

InitInference == InitWorker

InferWindow ==
    /\ modelLoaded
    /\ fed + NUM_INPUT_SAMPLES <= MaxInferences * NUM_INPUT_SAMPLES
    /\ \E output \in InferenceOutputs :
           /\ WorkerOnAudioData(Chunk(fed, NUM_INPUT_SAMPLES), <<output>>)
           /\ postedLog' = Append(postedLog, output)
    /\ fed' = fed + NUM_INPUT_SAMPLES
    /\ UNCHANGED <<fedUnloaded, windows, liveWorkers, mainVars, captured, handledCount>>

NextInference ==
    \/ WorkerLoadModel
    \/ InferWindow

SpecInference == InitInference /\ [][NextInference]_vars

(***************************************************************************)
(* C1.  Every window handed to inference holds, in order, the next         *)
(* NUM_INPUT_SAMPLES samples of the concatenation of the chunks: with all  *)
(* chunks delivered while the model is loaded, window k is samples         *)
(* N*(k-1)+1 .. N*k of the stream (numbering from 1; N the window length), *)
(* and there are floor(fed / N) windows.                                   *)
(***************************************************************************)
WindowsAreStream ==
    (modelLoaded /\ fedUnloaded = 0) =>
        /\ Len(windows) = fed \div NUM_INPUT_SAMPLES
        /\ \A k \in 1..Len(windows) :
               windows[k] = [i \in 1..NUM_INPUT_SAMPLES |-> NUM_INPUT_SAMPLES * (k - 1) + i]

\* A chunk longer than a window has been split over three windows
WindowsAreStreamWitness ==
    /\ modelLoaded /\ fedUnloaded = 0
    /\ Len(windows) >= 3
    /\ bufferPos > 0

(***************************************************************************)
(* C2.  Along the full pitch history timeMs (x) is non-decreasing.         *)
(***************************************************************************)
HistoryTimeNonDecreasing ==
    \A i \in 1..(Len(page.fullPitchHistory) - 1) :
        page.fullPitchHistory[i].x <= page.fullPitchHistory[i + 1].x

(***************************************************************************)
(* C3.  The history follows the worker: the points of the full history are *)
(* the latest handled observations, in the order the worker posted them,   *)
(* and the handling of an observation appends exactly one point, carrying  *)
(* that observation's confidence, at the end.                              *)
(***************************************************************************)
HistoryFollowsWorker ==
    /\ [](LET n == Len(page.fullPitchHistory)
          IN  /\ n <= handledCount
              /\ handledCount <= Len(postedLog)
              /\ \A i \in 1..n :
                     page.fullPitchHistory[i].confidence = postedLog[handledCount - n + i])
    /\ [][handledCount' = handledCount + 1 =>
            LET n == Len(page.fullPitchHistory)
            IN  /\ Len(page'.fullPitchHistory) = n + 1
                /\ SubSeq(page'.fullPitchHistory, 1, n) = page.fullPitchHistory
                /\ page'.fullPitchHistory[n + 1].confidence = postedLog[handledCount + 1]]_vars

\* Two observations with different confidences have been handled
HistoryFollowsWorkerWitness ==
    /\ Len(page.fullPitchHistory) >= 2
    /\ page.fullPitchHistory[1].confidence # page.fullPitchHistory[2].confidence

(***************************************************************************)
(* C4.  An observation handled while the session is stopped (a stop has    *)
(* been requested, no start since) appends no point and changes neither    *)
(* the segments nor the displayed pitch.                                   *)
(***************************************************************************)
LateObservationDiscarded ==
    [][(page.pauseStartTime > 0 /\ handledCount' = handledCount + 1) =>
          /\ page'.fullPitchHistory = page.fullPitchHistory
          /\ page'.pitchHistory = page.pitchHistory
          /\ page'.segmentedNotes = page.segmentedNotes
          /\ page'.pitch = page.pitch]_vars

(***************************************************************************)
(* C5.  A start that resumes a paused session leaves the adjusted clock at *)
(* the value it had at the stop request that paused the session.           *)
(***************************************************************************)
ResumeContinuesClock ==
    [][(/\ page.pausedAt >= 0
        /\ page'.pausedAt = -1
        /\ page'.errorsInStep = 0
        /\ page'.mounted) =>
          now' - page'.pauseOffset = page.pausedAt]_vars

(***************************************************************************)
(* C6.  getAdjustedNow() never decreases, and it stands still while the    *)
(* session is paused.                                                      *)
(***************************************************************************)
AdjustedNowMonotone ==
    [][/\ now' - page'.pauseOffset >= now - page.pauseOffset
       /\ (page.pausedAt >= 0 /\ page'.pausedAt >= 0) =>
              now' - page'.pauseOffset = now - page.pauseOffset]_vars

(***************************************************************************)
(* C7.  initializeAudio from Uninitialized leaves the session Initializing *)
(* (or, when the worker cannot be created, reports the error and leaves it *)
(* Uninitialized); model_loaded handled while Initializing leaves it       *)
(* Ready; the worker's load failure handled while Initializing reports the *)
(* error and leaves the session not initializing, not ready and not        *)
(* processing.                                                             *)
(***************************************************************************)
InitializeLifecycle ==
    [][/\ (UIInitializeAudio /\ ~page.serviceInstance) =>
              \/ /\ page'.isInitializing /\ service'.worker
                 /\ ~page'.isServiceReady /\ ~page'.isProcessing
                 /\ ~service'.isInitialized /\ ~service'.isProcessing
              \/ /\ page'.error /\ ~service'.worker
                 /\ ~page'.isInitializing /\ ~page'.isServiceReady /\ ~page'.isProcessing
                 /\ ~service'.isInitialized /\ ~service'.isProcessing
       /\ (OnMessageModelLoaded /\ page.isInitializing) =>
              /\ page'.isServiceReady /\ service'.isInitialized
              /\ ~page'.isInitializing
       /\ (OnMessageError /\ page.isInitializing) =>
              /\ page'.error
              /\ ~page'.isInitializing /\ ~page'.isServiceReady /\ ~page'.isProcessing
              /\ ~service'.isInitialized /\ ~service'.isProcessing]_vars

\* The model failed to load and the failure has been handled
InitializeLifecycleWitness ==
    /\ workerModel = "failed" /\ toMain = <<>>
    /\ page.serviceInstance /\ page.error
    /\ ~page.isInitializing /\ ~page.isServiceReady

(***************************************************************************)
(* C8.  While the session is Initializing a start is on record             *)
(* (startAfterInit) and a start request only puts it on record; handling   *)
(* model_loaded launches start() exactly once and takes the request off    *)
(* the record; no other step but a start request launches a start(); and a *)
(* start() whose awaits all succeed ends Processing.                       *)
(***************************************************************************)
DeferredStartFires ==
    /\ [](page.isInitializing =>
            /\ page.startAfterInit
            /\ \A created \in NewContexts :
                   StartProcessing(Cur, created) = [Cur EXCEPT !.p.startAfterInit = TRUE])
    /\ [][/\ (OnMessageModelLoaded /\ page.isInitializing) =>
                 /\ ~page'.startAfterInit
                 /\ page'.isServiceReady
                 /\ \/ PendingStarts' = PendingStarts + 1 /\ page'.errorsInStep = 0
                    \/ PendingStarts' = PendingStarts /\ page'.errorsInStep > 0
          /\ PendingStarts' > PendingStarts => (UIStartProcessing \/ OnMessageModelLoaded)
          /\ (AddModuleResolves /\ service.worker) =>
                 \/ ops'.start["getUserMedia"] = ops.start["getUserMedia"] + 1
                 \/ service'.isProcessing /\ page'.isProcessing
          /\ (GetUserMediaResolves /\ service.worker /\ service.pitchForwarderNode) =>
                 service'.isProcessing /\ page'.isProcessing]_vars

\* The start launched by model_loaded has reached Processing
DeferredStartFiresWitness ==
    /\ page.isProcessing /\ service.isProcessing /\ service.connected
    /\ ~page.startAfterInit /\ ~page.error
    /\ captured = 0 /\ page.pauseOffset = 0 /\ page.pausedAt = -1 /\ PendingStarts = 0

(***************************************************************************)
(* C9.  When an await of start() fails (resume, the worklet module, the    *)
(* microphone), the error is reported, the session is not Processing, it   *)
(* is still Ready, and the guards of a further start hold.                 *)
(***************************************************************************)
FailedStartLeavesReady ==
    [][((ResumeRejects \/ AddModuleRejects \/ GetUserMediaRejects)
            /\ service.worker /\ page.serviceInstance) =>
          /\ page'.error
          /\ ~page'.isProcessing /\ ~service'.isProcessing
          /\ page'.isServiceReady /\ service'.isInitialized /\ service'.worker
          /\ page'.serviceInstance /\ ~page'.isInitializing]_vars

(***************************************************************************)
(* C10.  Once the page's cleanup and every operation in flight have        *)
(* finished, the session is Uninitialized: no worker, no audio context, no *)
(* microphone stream held, not initialized, not processing, histories and  *)
(* segments empty.                                                         *)
(***************************************************************************)
CleanupReachesUninitialized ==
    (~page.mounted /\ ops.cleanup = {} /\ PendingStarts = 0 /\ ops.stop = 0) =>
        /\ ~service.worker
        /\ service.audioContext = "none"
        /\ ~service.mediaStream
        /\ ~service.isInitialized /\ ~service.isProcessing
        /\ ~page.isProcessing /\ ~page.isServiceReady /\ ~page.isInitializing
        /\ page.fullPitchHistory = <<>> /\ page.pitchHistory = <<>>
        /\ page.segmentedNotes = <<>>

(***************************************************************************)
(* C11.  A stop request made while Processing records Date.now() as the    *)
(* pause start, leaves the service not processing with the capture graph   *)
(* disconnected, and keeps the microphone stream and its source node; the  *)
(* stop ends (at once, or when suspend() settles) with the page not        *)
(* processing and generateMidiSegments run exactly once, over the full     *)
(* history; and getUserMedia is requested only when no stream is held, so  *)
(* the next start() reuses the stream.                                     *)
(***************************************************************************)
StopPausesSession ==
    [][/\ UIStopProcessing =>
              /\ page'.pauseStartTime = now
              /\ ~service'.isProcessing /\ ~service'.connected
              /\ service'.mediaStream = service.mediaStream
              /\ service'.microphoneNode = service.microphoneNode
              /\ page'.fullPitchHistory = page.fullPitchHistory
              /\ IF service.audioContext = "running"
                 THEN /\ ops'.stop = ops.stop + 1
                      /\ page'.segRuns = 0
                      /\ page'.segmentedNotes = page.segmentedNotes
                 ELSE /\ ~page'.isProcessing
                      /\ page'.segRuns = 1
                      /\ page'.segmentedNotes =
                             GenerateMidiSegments(page.fullPitchHistory, page.segmentedNotes)
       /\ (SuspendResolves \/ SuspendRejects) =>
              /\ ~page'.isProcessing
              /\ page'.segRuns = 1
              /\ service'.mediaStream = service.mediaStream
              /\ page'.segmentedNotes =
                     GenerateMidiSegments(page'.fullPitchHistory,
                                          IF page'.errorsInStep = 0 THEN page.segmentedNotes
                                          ELSE <<>>)
              /\ page'.errorsInStep = 0 =>
                     /\ page'.fullPitchHistory = page.fullPitchHistory
                     /\ page'.pauseStartTime = page.pauseStartTime
       /\ ops'.start["getUserMedia"] > ops.start["getUserMedia"] => ~service.mediaStream]_vars

\* A session with two points in its history has been stopped: it is paused,
\* the graph is disconnected, the context suspended, the stream still held
StopPausesSessionWitness ==
    /\ page.pauseStartTime > 0 /\ ~page.isProcessing /\ ~page.error
    /\ page.isServiceReady /\ ops.stop = 0 /\ PendingStarts = 0
    /\ ~service.isProcessing /\ ~service.connected
    /\ service.mediaStream /\ service.microphoneNode
    /\ service.audioContext = "suspended"
    /\ Len(page.fullPitchHistory) = 2 /\ page.segRuns = 1

(***************************************************************************)
(* C12.  Handling the 'error' message of a failed model execution clears   *)
(* the history and the segments, reports the error, and stops the          *)
(* pipeline: the page and the service are not processing and the capture   *)
(* graph is disconnected, so that no further window reaches the worker.    *)
(***************************************************************************)
InferenceErrorStopsPipeline ==
    [][(OnMessageError /\ modelLoaded) =>
          /\ page'.error
          /\ page'.fullPitchHistory = <<>> /\ page'.pitchHistory = <<>>
          /\ page'.segmentedNotes = <<>>
          /\ ~page'.isProcessing
          /\ ~service'.isProcessing /\ ~service'.connected]_vars

(***************************************************************************)
(* C13.  A failure is reported to the error callback exactly once: when    *)
(* resume() or addModule() rejects, handleError runs once for each start() *)
(* call that waited for it; when getUserMedia() rejects, or suspend()      *)
(* rejects, it runs once.                                                  *)
(***************************************************************************)
ErrorReportedOnce ==
    [][/\ ResumeRejects => page'.errorsInStep = ops.start["resume"]
       /\ AddModuleRejects => page'.errorsInStep = ops.start["addModule"]
       /\ GetUserMediaRejects => page'.errorsInStep = 1
       /\ SuspendRejects => page'.errorsInStep = 1]_vars

(***************************************************************************)
(* C14.  Nothing is retried automatically: a worker is created only by an  *)
(* initialize request and a start() is launched only by a start request or *)
(* by the handling of model_loaded.  After a fatal error an initialize     *)
(* request starts a fresh initialization: it leaves the session            *)
(* Initializing with a new worker and the error cleared (or, when the      *)
(* worker cannot be created, reports that error).                          *)
(***************************************************************************)
ReinitializeAfterFatalError ==
    [][/\ (service'.worker /\ ~service.worker) => UIInitializeAudio
       /\ PendingStarts' > PendingStarts => (UIStartProcessing \/ OnMessageModelLoaded)
       /\ (UIInitializeAudio /\ page.error) =>
              \/ page'.isInitializing /\ service'.worker /\ ~page'.error
              \/ page'.error /\ page'.errorsInStep = 1]_vars

(***************************************************************************)
(* C15.  When the audio context leaves 'running' while the session is      *)
(* Processing, the session ends as after a stop: the page and the service  *)
(* are not processing, the capture graph is disconnected, the session is   *)
(* still Ready, and the histories and the segments are those a stop would  *)
(* leave.                                                                  *)
(***************************************************************************)
InterruptionIsImplicitStop ==
    [][(ContextInterrupted /\ page.isProcessing /\ service.isProcessing) =>
          LET stopped == StopProcessing([Cur EXCEPT !.s.audioContext = "suspended"])
          IN  /\ ~page'.isProcessing
              /\ ~service'.isProcessing /\ ~service'.connected
              /\ page'.isServiceReady /\ service'.isInitialized
              /\ page'.fullPitchHistory = stopped.p.fullPitchHistory
              /\ page'.pitchHistory = stopped.p.pitchHistory
              /\ page'.segmentedNotes = stopped.p.segmentedNotes]_vars

(***************************************************************************)
(* C16.  When a consumer callback throws during a notification, the        *)
(* exception is caught and reported through the error callback, and the    *)
(* service's handling completes: a throwing onModelLoaded leaves the       *)
(* service initialized, a throwing onError in worker.onerror is followed   *)
(* by the cleanup (no worker left), and a throwing onError in the catch of *)
(* start() by stopInternal, with the start() call finished.                *)
(***************************************************************************)
CallbackFailureIsContained ==
    [][/\ OnMessageModelLoadedThrows =>
              page'.errorsInStep = 1 /\ service'.isInitialized /\ service'.modelReady
       /\ OnMessagePitchThrows => page'.errorsInStep = 1
       /\ OnMessageErrorThrows => page'.errorsInStep = 1
       /\ WorkerOnErrorThrows => page'.errorsInStep = 1 /\ ~service'.worker
       /\ GetUserMediaRejectsThrows =>
              /\ page'.errorsInStep = 1
              /\ ~service'.isProcessing /\ ~service'.connected]_vars

(***************************************************************************)
(* C17.  At most one window of audio waits for inference: the samples      *)
(* queued for the worker, with those in its frame buffer, never exceed one *)
(* window.                                                                 *)
(***************************************************************************)
AtMostOneWindowPending ==
    Len(toWorker) * SessionChunkLen + bufferPos <= NUM_INPUT_SAMPLES

(***************************************************************************)
(* C18.  One message for a completed window: the worker never posts more   *)
(* 'pitch' observations than windows were completed, and once the model is *)
(* loaded the messages that follow model_loaded are 'pitch' or 'error',    *)
(* one for each window completed since - that is, for all completed        *)
(* windows but those completed (and dropped) before the load.              *)
(***************************************************************************)
OneMessagePerWindow ==
    /\ Len(SelectSeq(toMain, LAMBDA m : m.type = "pitch")) <= fed \div NUM_INPUT_SAMPLES
    /\ modelLoaded =>
           /\ toMain[1].type = "model_loaded"
           /\ \A k \in 2..Len(toMain) : toMain[k].type \in {"pitch", "error"}
           /\ Len(toMain) - 1 =
                  fed \div NUM_INPUT_SAMPLES - fedUnloaded \div NUM_INPUT_SAMPLES

\* A window was dropped before the load; after it one chunk filled two
\* windows, one yielding an observation and one an error
OneMessagePerWindowWitness ==
    /\ modelLoaded /\ fedUnloaded >= NUM_INPUT_SAMPLES
    /\ fed - fedUnloaded = 2 * NUM_INPUT_SAMPLES + 3
    /\ Len(toMain) >= 3
    /\ \E i, j \in 2..Len(toMain) : toMain[i].type = "pitch" /\ toMain[j].type = "error"

(***************************************************************************)
(* C19.  The published segments are a function of the history alone: they *)
(* are what generateMidiSegments yields for the history from an empty      *)
(* list, whatever was published before and however often the segmenter     *)
(* ran; and running it again, once or twice, over the same history leaves  *)
(* the published list as it is.                                            *)
(***************************************************************************)
SegmentsArePure ==
    LET history == page.fullPitchHistory
        again == GenerateMidiSegments(history, page.segmentedNotes)
    IN  /\ page.segmentedNotes = GenerateMidiSegments(history, <<>>)
        /\ again = page.segmentedNotes
        /\ GenerateMidiSegments(history, again) = again

\* The final segmentation has just re-run over a history that yields a segment
SegmentsArePureWitness ==
    /\ ~page.isProcessing /\ page.segRuns = 1
    /\ Len(page.fullPitchHistory) >= 3
    /\ Len(page.segmentedNotes) >= 1

(***************************************************************************)
(* C20.  A run is a maximal stretch of consecutive voiced points in which  *)
(* each point is within pitchChangeThreshold * 0.75 of the one before; it  *)
(* is closed by a forced cut, by an unvoiced point or by the end of the    *)
(* history.  Pass 1 emits a run (a segment from its first to its last      *)
(* timestamp) iff last - first >= minNoteDuration: a run of exactly        *)
(* minNoteDuration ms is emitted, one of minNoteDuration - 1 ms and one of *)
(* a single point are not; and every published segment starts at the start *)
(* of an emitted run and ends at the end of one.                           *)
(***************************************************************************)
MinDurationBoundary ==
    LET h == page.fullPitchHistory
        n == Len(h)
        voiced(i) == h[i].confidence >= confidenceThreshold /\ h[i].continuousMidi # NoMidi
        joins(i) == /\ i >= 1 /\ i < n /\ voiced(i) /\ voiced(i + 1)
                    /\ Abs(h[i + 1].continuousMidi - h[i].continuousMidi) * 4
                           <= pitchChangeThreshold * 3
        runs == {r \in (1..n) \X (1..n) :
                    /\ r[1] <= r[2]
                    /\ \A k \in r[1]..r[2] : voiced(k)
                    /\ \A k \in r[1]..(r[2] - 1) : joins(k)
                    /\ ~joins(r[1] - 1) /\ ~joins(r[2])}
        span(r) == h[r[2]].x - h[r[1]].x
        emitted == {r \in runs : span(r) >= minNoteDuration}
        pass1 == SegmentPass(h, 1, <<>>, <<>>, 0)
    IN  n >= 2 =>
          /\ Len(pass1) = Cardinality(emitted)
          /\ \A r \in runs :
                 /\ span(r) = minNoteDuration => r \in emitted
                 /\ span(r) = minNoteDuration - 1 => r \notin emitted
                 /\ r[1] = r[2] => r \notin emitted
                 /\ r \in emitted <=>
                        \E k \in 1..Len(pass1) :
                            /\ pass1[k].startTime = h[r[1]].x /\ pass1[k].endTime = h[r[2]].x
                            /\ pass1[k].duration = span(r)
          /\ \A k \in 1..Len(page.segmentedNotes) :
                 /\ \E r \in emitted : page.segmentedNotes[k].startTime = h[r[1]].x
                 /\ \E r \in emitted : page.segmentedNotes[k].endTime = h[r[2]].x

\* A run of exactly minNoteDuration closed by a forced cut has been
\* published, and the run after it, of minNoteDuration - 1 and closed by the
\* end of the history, has not
MinDurationBoundaryWitness ==
    LET h == page.fullPitchHistory
    IN  /\ Len(h) = 4
        /\ h[1].continuousMidi = h[2].continuousMidi /\ h[1].continuousMidi # NoMidi
        /\ h[3].continuousMidi = h[4].continuousMidi /\ h[3].continuousMidi # NoMidi
        /\ h[2].continuousMidi # h[3].continuousMidi
        /\ h[2].x - h[1].x = minNoteDuration
        /\ h[4].x - h[3].x = minNoteDuration - 1
        /\ Len(page.segmentedNotes) = 1
        /\ page.segmentedNotes[1].startTime = h[1].x /\ page.segmentedNotes[1].endTime = h[2].x

(***************************************************************************)
(* C21.  A published segment covers the pass-1 segments merged into it: it *)
(* starts where the first starts, ends where the last ends, lasts their    *)
(* durations plus the gaps between them, and its average pitch and average *)
(* confidence are those of its pass-1 segments weighted by their own       *)
(* durations, gap time having no weight - also when three or more pass-1   *)
(* segments were merged one after the other.                               *)
(***************************************************************************)
MergeWeightsExcludeGaps ==
    LET potentialSegments == SegmentPass(page.fullPitchHistory, 1, <<>>, <<>>, 0)
        published == page.segmentedNotes
    IN  \A k \in 1..Len(published) :
            LET parts == {i \in 1..Len(potentialSegments) :
                             /\ published[k].startTime <= potentialSegments[i].startTime
                             /\ potentialSegments[i].endTime <= published[k].endTime}
                first == CHOOSE i \in parts : \A j \in parts : i <= j
                last == CHOOSE i \in parts : \A j \in parts : j <= i
                pointsDuration[j \in first..last] ==
                    IF j = first THEN potentialSegments[j].duration
                    ELSE pointsDuration[j - 1] + potentialSegments[j].duration
                gaps[j \in first..last] ==
                    IF j = first THEN 0
                    ELSE gaps[j - 1] + potentialSegments[j].startTime
                                     - potentialSegments[j - 1].endTime
                average[j \in first..last] ==
                    IF j = first
                    THEN [midi |-> potentialSegments[j].avgContinuousMidi,
                          confidence |-> potentialSegments[j].avgConfidence]
                    ELSE [midi |-> FracWeighted(average[j - 1].midi, pointsDuration[j - 1],
                                                potentialSegments[j].avgContinuousMidi,
                                                potentialSegments[j].duration),
                          confidence |-> FracWeighted(average[j - 1].confidence,
                                                      pointsDuration[j - 1],
                                                      potentialSegments[j].avgConfidence,
                                                      potentialSegments[j].duration)]
            IN  /\ parts # {}
                /\ published[k].startTime = potentialSegments[first].startTime
                /\ published[k].endTime = potentialSegments[last].endTime
                /\ published[k].duration = pointsDuration[last] + gaps[last]
                /\ published[k].avgContinuousMidi = average[last].midi
                /\ published[k].avgConfidence = average[last].confidence

\* The same for the segments merged from at most two pass-1 segments
MergeOfTwoWeights ==
    LET potentialSegments == SegmentPass(page.fullPitchHistory, 1, <<>>, <<>>, 0)
        published == page.segmentedNotes
    IN  \A k \in 1..Len(published) :
            \A i \in 1..Len(potentialSegments) :
                /\ published[k].startTime = potentialSegments[i].startTime
                /\ published[k].endTime > potentialSegments[i].endTime
                /\ published[k].endTime = potentialSegments[i + 1].endTime
                => LET prev == potentialSegments[i]
                       curr == potentialSegments[i + 1]
                   IN  /\ published[k].duration =
                              prev.duration + (curr.startTime - prev.endTime) + curr.duration
                       /\ published[k].avgContinuousMidi =
                              FracWeighted(prev.avgContinuousMidi, prev.duration,
                                           curr.avgContinuousMidi, curr.duration)
                       /\ published[k].avgConfidence =
                              FracWeighted(prev.avgConfidence, prev.duration,
                                           curr.avgConfidence, curr.duration)

\* The spec's example, a sixteenth off: 120 ms at A4 and, 30 ms later, 100 ms a
\* quarter of a semitone above are published as one segment of 250 ms at the
\* average weighted 120 to 100
MergeOfTwoExample ==
    /\ Len(page.fullPitchHistory) = 6
    /\ Len(page.segmentedNotes) = 1
    /\ page.segmentedNotes[1].startTime = 0
    /\ page.segmentedNotes[1].endTime = 250
    /\ page.segmentedNotes[1].duration = 250
    /\ page.segmentedNotes[1].avgContinuousMidi =
           Frac((69 * MidiUnit) * 120 + (69 * MidiUnit + 4) * 100, 220)

(***************************************************************************)
(* C22.  Every published segment ends no earlier than it starts and lasts  *)
(* endTime - startTime, whether it is a single run or the result of one or *)
(* of several merges.                                                      *)
(***************************************************************************)
SegmentDurationIsSpan ==
    \A k \in 1..Len(page.segmentedNotes) :
        /\ page.segmentedNotes[k].endTime >= page.segmentedNotes[k].startTime
        /\ page.segmentedNotes[k].duration =
               page.segmentedNotes[k].endTime - page.segmentedNotes[k].startTime

\* Three runs with gaps between them are published as one segment, next to a
\* history whose runs stay apart
SegmentDurationIsSpanWitness ==
    /\ Len(SegmentPass(page.fullPitchHistory, 1, <<>>, <<>>, 0)) = 3
    /\ Len(page.segmentedNotes) = 1
    /\ page.segmentedNotes[1].duration >
           SumOf(SegmentPass(page.fullPitchHistory, 1, <<>>, <<>>, 0), "duration")

(***************************************************************************)
(* C23.  An observation handled while the smoother's state is empty (after *)
(* initialize, after start, after an unvoiced observation) is emitted as   *)
(* observed.  An observation equal to the smoothed value is emitted as it  *)
(* is, so a steady pitch stays; and an observation never leaves the        *)
(* smoothed value farther from it than before: the distance shrinks to     *)
(* smoothingFactor times what it was, or less (to the model's hundredth of *)
(* a hertz), which is how a steady pitch is approached.                    *)
(***************************************************************************)
FirstObservationExact ==
    [][ (toMain # <<>> /\ toMain' = Tail(toMain) /\ Head(toMain).pitch # NoPitch) =>
            LET detectedPitch == Head(toMain).pitch
            IN  /\ page'.pitch = service'.smoothedPitch
                /\ service.smoothedPitch = NoPitch => page'.pitch = detectedPitch
                /\ service.smoothedPitch = detectedPitch => page'.pitch = detectedPitch
                /\ service.smoothedPitch # NoPitch =>
                       /\ Abs(page'.pitch - detectedPitch) * 1000
                              <= Abs(service.smoothedPitch - detectedPitch)
                                     * service.smoothingFactorInternal + 999
                       /\ Min(service.smoothedPitch, detectedPitch) <= page'.pitch
                       /\ page'.pitch <= Max(service.smoothedPitch, detectedPitch) ]_vars

\* After an unvoiced observation 446 Hz was observed three times and is emitted
\* (smoothingFactor 0.9)
FirstObservationExactWitness ==
    /\ postedLog = <<NoPitch, 44600, 44600, 44600>>
    /\ handledCount = 4
    /\ service.smoothingFactorInternal = smoothingFactorInternal
    /\ page.pitch = 44600

(***************************************************************************)
(* C24.  With resetThresholdInCents = 100 and smoothingFactor 0.9, 466.16  *)
(* Hz observed while the smoothed value is 440 Hz is blended: 99.985 cents *)
(* do not exceed the threshold, and 442.61 Hz (442.616, to the hundredth)  *)
(* is emitted.  466.17 Hz, 100.02 cents above, is emitted as observed.     *)
(***************************************************************************)
SemitoneExampleBlends ==
    [][ (toMain # <<>> /\ toMain' = Tail(toMain) /\ service.smoothedPitch = 44000
         /\ service.smoothingFactorInternal = smoothingFactorInternal) =>
            /\ Head(toMain).pitch = 46616 => page'.pitch = 44261
            /\ Head(toMain).pitch = 46617 => page'.pitch = 46617 ]_vars

\* 440 Hz and then 466.16 Hz were observed and handled
SemitoneExampleBlendsWitness ==
    /\ postedLog = <<44000, 46616>>
    /\ handledCount = 2
    /\ service.smoothingFactorInternal = smoothingFactorInternal
    /\ page.pitch = 44261 /\ service.smoothedPitch = 44261

\* C24 as the spec has it: 466.16 Hz after 440 Hz is a hard reset
SemitoneExampleResets ==
    [][ (toMain # <<>> /\ toMain' = Tail(toMain) /\ service.smoothedPitch = 44000
         /\ service.smoothingFactorInternal = smoothingFactorInternal
         /\ Head(toMain).pitch = 46616) => page'.pitch = 46616 ]_vars

StopAndCleanupIgnoreWorker ==
    /\ (workerModel = "hung" /\ ops.stop > 0) ~> ~page.isProcessing
    /\ (ops.cleanup # {}) ~> (ops.cleanup = {})
    /\ [][CloseSettles =>
              /\ service'.audioContext = "none" /\ ~service'.worker
              /\ ~service'.isInitialized /\ ~service'.isProcessing]_vars
    /\ [][(workerModel = "hung" /\ workerModel' = "hung") =>
              Len(toMain') <= Len(toMain)]_vars

\* The inference hangs and the stop has ended all the same
StopAndCleanupIgnoreWorkerWitness ==
    /\ workerModel = "hung"
    /\ page.pausedAt # -1 /\ ops.stop = 0
    /\ ~page.isProcessing /\ ~service.isProcessing /\ ~page.error

(***************************************************************************)
(* C27.  For a window the model answers, runModel posts the bin of highest *)
(* confidence (1 - uncertainty) among the bins of confidence at least      *)
(* CONF_THRESHOLD, the first of them when several share it, with that      *)
(* bin's pitch in hertz and its confidence; with no such bin it posts      *)
(* pitch null and confidence 0.  So a posted pitch that is not null comes  *)
(* with a confidence of at least CONF_THRESHOLD.                           *)
(***************************************************************************)
BestAcceptedBin ==
    modelLoaded =>
        /\ Len(toMain) = 1 + Len(postedLog)
        /\ \A k \in 1..Len(postedLog) :
               LET bins == postedLog[k].bins
                   msg == toMain[k + 1]
                   conf(i) == 100 - bins[i][1]
                   accepted == {i \in 1..Len(bins) : conf(i) >= CONF_THRESHOLD}
                   best == CHOOSE i \in accepted :
                               /\ \A j \in accepted : conf(j) <= conf(i)
                               /\ \A j \in accepted : conf(j) = conf(i) => i <= j
               IN  /\ postedLog[k].throws => msg = ErrorMsg
                   /\ (~postedLog[k].throws /\ accepted = {}) => msg = PitchMsg(NoPitch, 0)
                   /\ (~postedLog[k].throws /\ accepted # {}) =>
                          /\ msg = PitchMsg(GetPitchHz(bins[best][2]), conf(best))
                          /\ msg.pitch # NoPitch
                   /\ (msg.type = "pitch" /\ msg.pitch # NoPitch) =>
                          msg.confidence >= CONF_THRESHOLD

\* Two bins of confidence 0.9 after one below the threshold: the first of the
\* two is posted; and a window with a bin below the threshold alone
BestAcceptedBinWitness ==
    /\ Len(postedLog) = 2 /\ Len(toMain) = 3
    /\ postedLog[1] = ModelAnswer(<< <<100 - CONF_THRESHOLD + 1, 637>>, <<10, 443>>, <<10, 823>> >>)
    /\ toMain[2] = PitchMsg(220, 90)
    /\ postedLog[2] = ModelAnswer(<< <<100 - CONF_THRESHOLD + 1, 637>> >>)
    /\ toMain[3] = PitchMsg(NoPitch, 0)

(***************************************************************************)
(* C28.  The smoother's rule.  An unvoiced observation empties the state.  *)
(* A voiced one replaces the smoothed value when the state is empty, when  *)
(* it lies more than resetThresholdInCents (100 cents, a frequency ratio   *)
(* above 2^(1/12)) from the smoothed value, or when smoothingFactor is 0;  *)
(* in every other case the new value is                                    *)
(* pitch * (1 - smoothingFactor) + smoothed * smoothingFactor.  The value  *)
(* is emitted with the observation's confidence; smoothingFactor is the    *)
(* option clamped to [0, 0.999].                                           *)
(***************************************************************************)
SmootherRule ==
    [][ (toMain # <<>> /\ toMain' = Tail(toMain) /\ Head(toMain).type = "pitch") =>
            LET pitchHz == Head(toMain).pitch
                smoothedHz == service.smoothedPitch
                smoothingFactor == service.smoothingFactorInternal
                \* (high - low) / low > 0.059463, in two halves
                high == Max(pitchHz, smoothedHz)
                low == Min(pitchHz, smoothedHz)
                excess == (high - low) * 1000 - low * ((ResetRatio - 1000000) \div 1000)
                jump == excess > 0 /\ (excess >= low
                                       \/ excess * 1000 > low * ((ResetRatio - 1000000) % 1000))
            IN  /\ smoothingFactor \in 0..999
                /\ page'.pitch = service'.smoothedPitch
                /\ page'.confidence = Head(toMain).confidence
                /\ service'.smoothedPitch =
                       IF pitchHz = NoPitch THEN NoPitch
                       ELSE IF smoothedHz = NoPitch \/ jump \/ smoothingFactor = 0 THEN pitchHz
                       ELSE (pitchHz * (1000 - smoothingFactor) + smoothedHz * smoothingFactor)
                                \div 1000 ]_vars

\* Without smoothing 446 Hz after 440 Hz is emitted as observed
SmootherRuleWitness ==
    /\ service.smoothingFactorInternal = 0
    /\ postedLog = <<44000, 44600>>
    /\ handledCount = 2
    /\ page.pitch = 44600

(***************************************************************************)
(* C29.  A start() that succeeds has emptied the smoother when it connects *)
(* the capture graph and sets isProcessing: whenever the service goes from *)
(* not processing to processing, or the graph from disconnected to         *)
(* connected, the smoothed pitch is null, so that no pitch observed before *)
(* is left for the first observation of the new capture to be blended with.*)
(***************************************************************************)
StartResetsSmoother ==
    [][ ((~service.isProcessing /\ service'.isProcessing)
         \/ (~service.connected /\ service'.connected)) =>
            service'.smoothedPitch = NoPitch ]_vars

\* pass1 is what the rule of runs yields for the history h: a point is voiced
\* iff its confidence is at least threshold and its continuous MIDI a number; a
\* voiced point joins the run of the point before it iff that one is voiced and
\* the two differ by at most changeNum / changeDen; every run that lasts
\* minDuration gives one segment, from its first to its last timestamp, that
\* averages its points, and nothing else gives one
PassOneAsClaimed(h, pass1, threshold, changeNum, changeDen, minDuration) ==
    LET n == Len(h)
        voiced(i) == h[i].confidence >= threshold /\ h[i].continuousMidi # NoMidi
        joins(i) == /\ i >= 2 /\ voiced(i - 1) /\ voiced(i)
                    /\ Abs(h[i].continuousMidi - h[i - 1].continuousMidi) * changeDen
                           <= changeNum
        \* the first point of the run of point i
        runStart(i) == CHOOSE j \in 1..i : ~joins(j) /\ \A k \in (j + 1)..i : joins(k)
        starts == {j \in 1..n : voiced(j) /\ ~joins(j)}
        runEnd(j) == CHOOSE i \in j..n :
                         /\ runStart(i) = j
                         /\ \A k \in (i + 1)..n : ~voiced(k) \/ runStart(k) # j
        points(j) == SubSeq(h, j, runEnd(j))
        segment(j) == [startTime |-> h[j].x, endTime |-> h[runEnd(j)].x,
                       duration |-> h[runEnd(j)].x - h[j].x,
                       avgContinuousMidi |-> Frac(SumOf(points(j), "continuousMidi"),
                                                  Len(points(j))),
                       avgConfidence |-> Frac(SumOf(points(j), "confidence"),
                                              Len(points(j)))]
        emitted == {j \in starts : h[runEnd(j)].x - h[j].x >= minDuration}
    IN  /\ Len(pass1) = Cardinality(emitted)
        /\ \A j \in emitted : \E k \in 1..Len(pass1) : pass1[k] = segment(j)
        /\ \A k \in 1..Len(pass1) : \E j \in emitted : pass1[k] = segment(j)

(***************************************************************************)
(* C30.  In pass 1 of src/pages/Demo.tsx a point is voiced iff its         *)
(* confidence is at least CONFIDENCE_THRESHOLD and its continuous MIDI is  *)
(* a number; a voiced point joins the open run iff it differs from the     *)
(* last point added to the run (not from the run's average or first point) *)
(* by at most PITCH_CHANGE_THRESHOLD_SEMITONES, 0.75 semitones, without a  *)
(* factor; otherwise the run is closed and a new run opens at that point;  *)
(* an unvoiced point closes the run and opens none.                        *)
(***************************************************************************)
PassOneRunsUnscaled ==
    PassOneAsClaimed(page.fullPitchHistory,
                     DemoSegmentPass(page.fullPitchHistory, 1, <<>>, <<>>, 0),
                     CONFIDENCE_THRESHOLD, PITCH_CHANGE_THRESHOLD_SEMITONES, 1,
                     MIN_NOTE_DURATION_MS)

\* Points at 440, 458 and 476 Hz with a stop and a start before the second and
\* the third, MIN_NOTE_DURATION_MS or more from the first to the last: each is
\* 0.69 semitones above the one before, the last 1.36 above the first, and the
\* three are one run and one published segment
PassOneRunsUnscaledWitness ==
    LET h == page.fullPitchHistory
    IN  /\ Len(h) = 3
        /\ h[1].continuousMidi = 69 * MidiUnit /\ h[2].continuousMidi = 69 * MidiUnit + 11
        /\ h[3].continuousMidi = 69 * MidiUnit + 22
        /\ h[3].x - h[1].x >= MIN_NOTE_DURATION_MS
        /\ Len(page.segmentedNotes) = 1
        /\ page.segmentedNotes = DemoSegmentPass(h, 1, <<>>, <<>>, 0)
        /\ page.segmentedNotes[1].startTime = h[1].x /\ page.segmentedNotes[1].endTime = h[3].x
        /\ page.segmentedNotes[1].avgContinuousMidi = <<69 * MidiUnit + 11, 1>>

\* C30 as the spec has it, for Demo.tsx: the most a point may differ from the
\* one before is the threshold times 0.75
PassOneRuns ==
    PassOneAsClaimed(page.fullPitchHistory,
                     DemoSegmentPass(page.fullPitchHistory, 1, <<>>, <<>>, 0),
                     CONFIDENCE_THRESHOLD, PITCH_CHANGE_THRESHOLD_SEMITONES * 3, 4,
                     MIN_NOTE_DURATION_MS)

\* C30 as the spec has it, for the page with the hyperparameter signals at
\* their initial values
PassOneRunsSignals ==
    PassOneAsClaimed(page.fullPitchHistory,
                     SegmentPass(page.fullPitchHistory, 1, <<>>, <<>>, 0),
                     confidenceThreshold, pitchChangeThreshold * 3, 4, minNoteDuration)

\* On that page the two points of 440 Hz and 458 Hz are two runs: pass 1
\* yields no segment
PassOneRunsSignalsWitness ==
    LET h == page.fullPitchHistory
    IN  /\ Len(h) = 2
        /\ h[1].continuousMidi = 69 * MidiUnit /\ h[2].continuousMidi = 69 * MidiUnit + 11
        /\ h[2].x - h[1].x >= minNoteDuration
        /\ SegmentPass(h, 1, <<>>, <<>>, 0) = <<>>

\* merged is what the rule of pass 2 yields for the pass-1 segments: the merged
\* segments are groups of up to three neighbours; a segment that opens a group
\* is not mergeable into the group before as that was published; the second of
\* a group is mergeable into the first and the third into the merge of the two.
\* curr is mergeable into prev iff 0 < curr.startTime - prev.endTime < maxGap
\* and the averages differ by less than diffNum / diffDen.
MergeAsClaimed(potentialSegments, merged, maxGap, diffNum, diffDen) ==
    LET n == Len(potentialSegments)
        mergeable(prev, curr) ==
            LET gap == curr.startTime - prev.endTime
            IN  /\ gap > 0 /\ gap < maxGap
                /\ FracDiffLess(curr.avgContinuousMidi, prev.avgContinuousMidi, diffNum, diffDen)
        first(k) == CHOOSE i \in 1..n : potentialSegments[i].startTime = merged[k].startTime
        last(k) == CHOOSE i \in 1..n : potentialSegments[i].endTime = merged[k].endTime
        running(k) == [endTime |-> potentialSegments[first(k) + 1].endTime,
                       avgContinuousMidi |->
                           FracWeighted(potentialSegments[first(k)].avgContinuousMidi,
                                        potentialSegments[first(k)].duration,
                                        potentialSegments[first(k) + 1].avgContinuousMidi,
                                        potentialSegments[first(k) + 1].duration)]
    IN  (n > 0 /\ n <= 3) =>
          /\ Len(merged) >= 1
          /\ \A k \in 1..Len(merged) :
                 /\ \E i \in 1..n : potentialSegments[i].startTime = merged[k].startTime
                 /\ \E i \in 1..n : potentialSegments[i].endTime = merged[k].endTime
                 /\ first(k) <= last(k)
          /\ first(1) = 1 /\ last(Len(merged)) = n
          /\ \A k \in 1..(Len(merged) - 1) :
                 /\ first(k + 1) = last(k) + 1
                 /\ ~mergeable(merged[k], potentialSegments[first(k + 1)])
          /\ \A k \in 1..Len(merged) :
                 /\ last(k) > first(k) =>
                        mergeable(potentialSegments[first(k)], potentialSegments[first(k) + 1])
                 /\ last(k) > first(k) + 1 =>
                        mergeable(running(k), potentialSegments[first(k) + 2])

(***************************************************************************)
(* C31.  In pass 2 of src/pages/Demo.tsx curr is merged into the running   *)
(* last segment prev iff 0 < curr.startTime - prev.endTime <               *)
(* MAX_GAP_MS_FOR_MERGE and the two averages differ by less than           *)
(* PITCH_DIFF_FOR_MERGE_SEMITONES, 0.5 semitones, without a factor; a gap  *)
(* of 0 or of MAX_GAP_MS_FOR_MERGE never merges, and an unmerged curr is   *)
(* the running segment the next one is compared with.                      *)
(***************************************************************************)
MergeRuleUnscaled ==
    MergeAsClaimed(DemoSegmentPass(page.fullPitchHistory, 1, <<>>, <<>>, 0),
                   page.segmentedNotes, MAX_GAP_MS_FOR_MERGE,
                   PITCH_DIFF_FOR_MERGE_SEMITONES, 1)

\* Three runs at 440, 450 and 440 Hz, 30 ms apart: the second, 0.39 semitones
\* above the first, is merged into it, and the third into the two
MergeRuleUnscaledWitness ==
    LET potentialSegments == DemoSegmentPass(page.fullPitchHistory, 1, <<>>, <<>>, 0)
    IN  /\ Len(potentialSegments) = 3
        /\ potentialSegments[1].avgContinuousMidi = <<69 * MidiUnit, 1>>
        /\ potentialSegments[2].avgContinuousMidi = <<69 * MidiUnit + 6, 1>>
        /\ potentialSegments[3].avgContinuousMidi = <<69 * MidiUnit, 1>>
        /\ potentialSegments[2].startTime - potentialSegments[1].endTime = 30
        /\ potentialSegments[3].startTime - potentialSegments[2].endTime = 30
        /\ Len(page.segmentedNotes) = 1
        /\ page.segmentedNotes[1].endTime = potentialSegments[3].endTime

\* C31 as the spec has it, for Demo.tsx: the averages differ by less than the
\* constant times 0.75
MergeRule ==
    MergeAsClaimed(DemoSegmentPass(page.fullPitchHistory, 1, <<>>, <<>>, 0),
                   page.segmentedNotes, MAX_GAP_MS_FOR_MERGE,
                   PITCH_DIFF_FOR_MERGE_SEMITONES * 3, 4)

\* C31 as the spec has it, for the page with the hyperparameter signals at
\* their initial values
MergeRuleSignals ==
    MergeAsClaimed(SegmentPass(page.fullPitchHistory, 1, <<>>, <<>>, 0),
                   page.segmentedNotes, maxGapForMerge, pitchDiffForMerge * 3, 4)

(***************************************************************************)
(* C32.  A message handled while the model is not loaded posts nothing and *)
(* hands no window to inference, however many windows it completes; the    *)
(* cursor is reset all the same (it is the number of samples delivered     *)
(* modulo the window length).  The windows handed to inference later are   *)
(* windows of the stream that complete with the message that hands them:   *)
(* a window dropped before is not among them, nor is any of its samples.   *)
(***************************************************************************)
UnloadedWindowsDiscarded ==
    [][ fed' # fed =>
          LET completed == fed \div NUM_INPUT_SAMPLES
              completedNext == fed' \div NUM_INPUT_SAMPLES
              streamWindow(j) ==
                  [i \in 1..NUM_INPUT_SAMPLES |-> NUM_INPUT_SAMPLES * (j - 1) + i]
          IN  /\ bufferPos' = fed' % NUM_INPUT_SAMPLES
              /\ ~modelLoaded => toMain' = toMain /\ windows' = windows
              /\ Len(windows') >= Len(windows)
              /\ SubSeq(windows', 1, Len(windows)) = windows
              /\ \A k \in (Len(windows) + 1)..Len(windows') :
                     \E j \in (completed + 1)..completedNext : windows'[k] = streamWindow(j)
      ]_vars

\* Two windows and a part of the third were delivered before the load and the
\* rest of the third after it: the one window handed to inference is the third
UnloadedWindowsDiscardedWitness ==
    /\ modelLoaded
    /\ fedUnloaded > 2 * NUM_INPUT_SAMPLES /\ fedUnloaded < 3 * NUM_INPUT_SAMPLES
    /\ bufferPos = 0
    /\ Len(windows) = 1
    /\ windows[1] = [i \in 1..NUM_INPUT_SAMPLES |-> 2 * NUM_INPUT_SAMPLES + i]
    /\ Len(toMain) = 2

(***************************************************************************)
(* C33.  Between messages the write cursor is at least 0 and less than the *)
(* window length.  An audioData message of n samples handled with the      *)
(* cursor at p completes (p + n) \div N windows: each is handed to         *)
(* inference once (one message posted, model loaded) or dropped (nothing   *)
(* posted), and the cursor is back at 0 before the next sample is copied,  *)
(* so the samples that follow the last completed window lie at the start   *)
(* of the buffer and the cursor ends at (p + n) % N.  A message of another *)
(* type leaves the buffer, the cursor and the output as they were.         *)
(***************************************************************************)
CursorDiscipline ==
    /\ [](bufferPos >= 0 /\ bufferPos < NUM_INPUT_SAMPLES)
    /\ [][ (toWorker # <<>> /\ toWorker' = Tail(toWorker)) =>
             LET data == Head(toWorker)
                 n == Len(data.data)
                 completed == (bufferPos + n) \div NUM_INPUT_SAMPLES
                 handed == IF modelLoaded THEN completed ELSE 0
             IN  IF data.type = "audioData"
                 THEN /\ bufferPos' = (bufferPos + n) % NUM_INPUT_SAMPLES
                      /\ Len(toMain') = Len(toMain) + handed
                      /\ Len(windows') = Len(windows) + handed
                      /\ completed > 0 =>
                           \A i \in 1..bufferPos' :
                               sampleBuffer'[i] = data.data[n - bufferPos' + i]
                      /\ completed = 0 =>
                           /\ \A i \in 1..n : sampleBuffer'[bufferPos + i] = data.data[i]
                           /\ \A i \in 1..bufferPos : sampleBuffer'[i] = sampleBuffer[i]
                 ELSE /\ sampleBuffer' = sampleBuffer
                      /\ bufferPos' = bufferPos
                      /\ toMain' = toMain
                      /\ workerModel' = workerModel
         ]_vars

\* A message of another type was dispatched, a window was dropped before the
\* load and one handed to inference after it, and the cursor ends inside the
\* buffer, just behind the last sample delivered
CursorDisciplineWitness ==
    /\ handledCount >= 1
    /\ fedUnloaded >= NUM_INPUT_SAMPLES
    /\ Len(windows) >= 1
    /\ bufferPos > 0
    /\ fed > fedUnloaded
    /\ sampleBuffer[bufferPos] = fed

(***************************************************************************)
(* C34.  When the timestamps of the history do not decrease, the published *)
(* segments are in the order of their start times and do not overlap (a    *)
(* segment ends no later than the next one starts), and each segment       *)
(* starts at the time of a voiced point that begins a run and ends at the  *)
(* time of a voiced point that is the last of a run: the history ends      *)
(* there, or the next point is unvoiced or has another pitch.              *)
(***************************************************************************)
SegmentsOrdered ==
    LET history == page.fullPitchHistory
        segments == page.segmentedNotes
        beginsRun(a) == /\ IsVoiced(history[a])
                        /\ \/ a = 1
                           \/ ~IsVoiced(history[a - 1])
                           \/ history[a - 1].continuousMidi # history[a].continuousMidi
        endsRun(b) == /\ IsVoiced(history[b])
                      /\ \/ b = Len(history)
                         \/ ~IsVoiced(history[b + 1])
                         \/ history[b + 1].continuousMidi # history[b].continuousMidi
    IN  (\A i \in 1..(Len(history) - 1) : history[i].x <= history[i + 1].x) =>
            /\ \A k \in 1..(Len(segments) - 1) :
                   /\ segments[k].startTime <= segments[k + 1].startTime
                   /\ segments[k].endTime <= segments[k + 1].startTime
            /\ \A k \in 1..Len(segments) :
                   \E a \in 1..Len(history), b \in 1..Len(history) :
                       /\ a <= b
                       /\ beginsRun(a) /\ history[a].x = segments[k].startTime
                       /\ endsRun(b) /\ history[b].x = segments[k].endTime

\* Three runs were published as two segments: two of the runs merged into one
\* segment, which a gap separates from the other
SegmentsOrderedWitness ==
    LET history == page.fullPitchHistory
        segments == page.segmentedNotes
    IN  /\ Len(segments) = 2
        /\ Len(history) = 3 * MaxRuns
        /\ segments[1].endTime < segments[2].startTime
        /\ \E k \in 1..2 : segments[k].duration > 2 * minNoteDuration + 20
        /\ page.segRuns = 1

(***************************************************************************)
(* C35.  In the composed system the worker dispatches an audioData message *)
(* only with its model loaded: no chunk reaches a worker that is still     *)
(* loading or has failed to load, so no completed window is dropped for    *)
(* want of a model.                                                        *)
(***************************************************************************)
ChunksReachLoadedWorker ==
    /\ [](service.connected /\ service.worker => modelLoaded)
    /\ [](toWorker # <<>> => modelLoaded)
    /\ [][WorkerOnMessage => modelLoaded]_vars

\* The capture is connected and the worker has inferred a window of it
ChunksReachLoadedWorkerWitness ==
    /\ service.connected /\ service.isProcessing
    /\ captured >= 1
    /\ postedLog # <<>>
    /\ toWorker # <<>>

(***************************************************************************)
(* C36.  A service instance has at most one inference worker at any time:  *)
(* one while this.worker is set and none otherwise, so that initialize()   *)
(* called again, during the load or after it, constructs no second worker  *)
(* and cleanup() leaves none alive.                                        *)
(***************************************************************************)
InitializeIdempotent ==
    liveWorkers = IF service.worker THEN 1 ELSE 0

(***************************************************************************)
(* C37.  start() called while the service is not initialized reports one   *)
(* error and leaves every field of the service, and the calls in flight,   *)
(* as they were.  start() called while the service is processing reports   *)
(* nothing and changes nothing, in the service or in its client: no        *)
(* getUserMedia, or any other call, is begun.                              *)
(***************************************************************************)
StartGuards ==
    [][ApiStart =>
          /\ ~service.isInitialized =>
                 /\ service' = service /\ ops' = ops
                 /\ page'.error /\ page'.errorsInStep = 1
          /\ (service.isInitialized /\ service.worker /\ service.isProcessing) =>
                 /\ service' = service /\ ops' = ops
                 /\ page' = Cur.p
      ]_vars

\* start() has just been refused while the worker was loading its model, and
\* the service is as initialize() left it
StartGuardsWitness ==
    /\ workerModel = "loading"
    /\ service = [InitService EXCEPT !.worker = TRUE]
    /\ page.error /\ page.errorsInStep = 1
    /\ PendingStarts = 0

(***************************************************************************)
(* C38.  The suspension of the context that an explicit stop() asked for   *)
(* reports no error: when suspend() resolves and the context's state       *)
(* changes, the service is not processing, so the state-change handler     *)
(* stays silent.                                                           *)
(***************************************************************************)
StopSuspendsSilently ==
    [][SuspendResolves => service.isProcessing = FALSE /\ page'.errorsInStep = 0]_vars

(***************************************************************************)
(* C39.  In whatever state the session is, handleError leaves both         *)
(* histories and the segment list empty, the pause offset and the pause    *)
(* start at 0 and the session neither processing nor initializing; it      *)
(* does not touch the service instance, the readiness flag or any field of *)
(* the service.  So does the task that delivers a worker's 'error'         *)
(* message, which runs nothing but the handler.                            *)
(***************************************************************************)
ErrorClearsSession ==
    /\ [](LET S == HandleError(Cur)
          IN  /\ S.p.fullPitchHistory = <<>> /\ S.p.pitchHistory = <<>>
              /\ S.p.segmentedNotes = <<>>
              /\ S.p.pauseOffset = 0 /\ S.p.pauseStartTime = 0
              /\ ~S.p.isProcessing /\ ~S.p.isInitializing
              /\ S.p.serviceInstance = page.serviceInstance
              /\ S.p.isServiceReady = page.isServiceReady
              /\ S.s = service /\ S.o = ops)
    /\ [][OnMessageError =>
            /\ page'.fullPitchHistory = <<>> /\ page'.pitchHistory = <<>>
            /\ page'.segmentedNotes = <<>>
            /\ page'.pauseOffset = 0 /\ page'.pauseStartTime = 0
            /\ ~page'.isProcessing /\ ~page'.isInitializing
            /\ page'.serviceInstance = page.serviceInstance
            /\ page'.isServiceReady = page.isServiceReady
            /\ service' = service
       ]_vars

\* An error has just been delivered to a session that was ready and had
\* handled an observation: it is still ready, and empty
ErrorClearsSessionWitness ==
    /\ page.error /\ page.errorsInStep = 1
    /\ handledCount >= 1
    /\ page.fullPitchHistory = <<>>
    /\ page.isServiceReady /\ page.serviceInstance
    /\ service.isProcessing /\ ~page.isProcessing

(***************************************************************************)
(* C40.  A stop requested while an earlier stop is still being carried out *)
(* leaves the recorded pause start and the pause offset as the first stop  *)
(* set them, so that the pause committed on resume is measured from the    *)
(* first stop.                                                             *)
(***************************************************************************)
SecondStopChangesNothing ==
    [][(UIStopProcessing /\ ops.stop > 0) =>
           /\ page'.pauseStartTime = page.pauseStartTime
           /\ page'.pauseOffset = page.pauseOffset
      ]_vars

====
